---- MODULE Spec2Model ----
(***************************************************************************)
(* PeerLink backend: leader election (cluster.service.ts) and the chunked  *)
(* upload relay with acknowledgment tracking (socket.handler.ts) over the  *)
(* storage repository (storage.repository.ts, redis.service.ts).           *)
(*                                                                         *)
(* Two specifications share the variables:                                 *)
(*   SpecElection  the election loop of two nodes against the lock key     *)
(*   Spec          one share (sender A, receiver B), one upload            *)
(***************************************************************************)
EXTENDS Integers, Sequences, FiniteSets, TLC

\* ---------------------------------------------------------------- constants
MASTER_TTL == 15            \* seconds, expiry of cluster:master
ELECTION_INTERVAL == 5000   \* ms between two election ticks of a node
ACK_TIMEOUT_MS == 10000     \* config.ackTimeout
MAX_RETRIES == 3            \* config.maxRetries
CHECK_INTERVAL_MS == 2000   \* config.ackCheckInterval
UPLOAD_CONCURRENCY == 6     \* frontend config, parallel in-flight chunks
maxConcurrentUploads == 10
maxConcurrentDownloads == 10
maxConcurrentTransfers == 5

\* ------------------------------------------------------------------- bounds
MaxElectionTime == 6        \* election: elapsed time, in election intervals
TotalChunks == 2            \* totalChunks announced by upload-init
MaxRequests == 3            \* upload-chunk requests the sender emits
MaxHttp == 3                \* createShare / joinShare requests
MaxSockets == 2             \* sockets one client opens
MaxRoutes == 1              \* routeMessageToClient calls
MaxBytes == 3               \* length of a chunk buffer in a published payload
RateMax == 2                \* the limit handed to checkRateLimit
WindowTicks == 2            \* length of the rate limit window, in ticks
MaxCalls == 3               \* heartbeat requests
MaxInits == 2               \* upload-init requests
MaxCancels == 1             \* cancel-download requests
MaxTotal == 3               \* totalChunks of the uploads whose progress is followed

Nodes == {"n1", "n2"}
Clients == {"A", "B", "C"}
FileIds == {"f1", "f2"}
ShareIds == {"s1", "s2"}
None == "none"

VARIABLES
  \* --- election (ClusterManager fields and the store's lock key)
  lockHolder,     \* value of cluster:master, None when the key does not exist
  lockTtl,        \* ms until cluster:master expires (0 when absent)
  isMaster,       \* [Nodes -> BOOLEAN]  ClusterManager.isMaster
  epc,            \* [Nodes -> position inside tryBecomeMaster]
  role,           \* [Nodes -> "master"|"worker"]  Node.role in the registry
  roleEvent,      \* [Nodes -> last cluster-role-change emitted, or None]
  roleCount,      \* [Nodes -> number of cluster-role-change events emitted, modulo 2]
  etime,          \* election intervals elapsed
  \* --- storage and transfer engine
  useRedis,       \* config.useRedis (distributed backend, two nodes)
  nodeOf,         \* [Clients -> node the client's socket is connected to]
  fileUploads,    \* [Nodes -> [FileIds -> UploadState]] inMemoryStorage.fileUploads
  redisUploads,   \* [FileIds -> serialized UploadState]  keys upload:<fileId>
  clientSessions, \* [Clients -> ClientSession]
  shareSessions,  \* [ShareIds -> ShareSession]
  reqs,           \* upload-chunk requests in emission order: [chunkIndex, pc]
  msgRoute,       \* PubSub channel message:route (FIFO)
  recvLog,        \* chunk-received events on the receiver's socket, in order
  retryLog,       \* chunk-retry events on the sender's socket, in order
  failLog,        \* chunks put on a failure list, with their retries
  ackProcessed,   \* ingested chunk indices whose chunk-acknowledged the server handled
  \* --- share admission (HTTP API)
  httpReqs,       \* createShare / joinShare requests: [op, clientId, shareId, pc, loaded, result]
  shareEvents,    \* events the share controller routed: {[req, event, to]}
  \* --- node failure
  alive,          \* [Nodes -> BOOLEAN]  the node's process is running
  timer,          \* [Nodes -> ms until the node's next election tick]
  failAge,        \* ms since the master stopped running, -1 before that
  \* --- routing between nodes
  sockets,        \* [Nodes -> set of socket ids]  io.sockets.sockets
  sockGen,        \* [Clients -> number of sockets the client has opened]
  sessSocket,     \* [Clients -> socket id]  socketId of the ClientSession
  dbSessions,     \* [Clients -> {[nodeId, socketId]}]  SessionService rows
  localClients,   \* [Nodes -> [Clients -> socket id]]  ClusterManager cache
  routeInbox,     \* [Nodes -> Seq(message)]  published, not yet handled
  published,      \* Seq(message): every message published so far
  emitLog,        \* Seq([payload, via, node, socketId]): socket.emit calls
  routeSeq,       \* number of routeMessageToClient calls so far
  \* --- rate limiter and heartbeats
  rlCount,        \* [Clients -> value of ratelimit:heartbeat:<client>, 0 if no key]
  rlTtl,          \* [Clients -> ticks the key lives, 0 if no key, -1 no expiry]
  rlWin,          \* [Clients -> [left, allowed]]  the window as it really is
  hbCalls,        \* Seq of heartbeat requests: [clientId, pc, read, session, answer, resetIn]
  \* --- upload-init requests
  initCalls,      \* Seq of [clientId, fileId, tooLarge, pc, active, todo, other, accepted, result]
  \* --- cancel-download requests
  cancelCalls,    \* Seq of [clientId, fileId, pc, session, after]
  \* --- completion of an upload
  uploadComplete, \* fileId -> number of upload-complete events emitted
  filesSent,      \* StatsService.stats.filesSent
  \* --- node registry and shutdown
  useCluster,     \* config.useCluster
  nodeStatus,     \* node -> status of its Node row
  dbInactive,     \* the Session rows with active = false
  shutdownPc,     \* node -> "up", "deregister" (between the two updates), "down"
  \* --- events emitted to the sender
  progressLog,    \* Seq of the progress values of chunk-uploaded
  ackLog,         \* chunk indexes of the chunk-acknowledged events routed to the sender
  cbLog,          \* request -> the responses its acknowledgment callback was called with
  \* --- the sweeper of the node registry
  hbStale,        \* node -> lastHeartbeat of its Node row is more than 30 s old
  cleanup         \* node -> [pc, deadNodeIds] of the cleanup cycle it runs

evars == <<lockHolder, lockTtl, isMaster, epc, role, roleEvent, roleCount,
           etime>>
uvars == <<useRedis, nodeOf, fileUploads, redisUploads, clientSessions,
           shareSessions, reqs, msgRoute, recvLog, retryLog, failLog,
           ackProcessed>>
svars == <<httpReqs, shareEvents>>
fvars == <<alive, timer, failAge>>
rvars == <<sockets, sockGen, sessSocket, dbSessions, localClients,
           routeInbox, published, emitLog, routeSeq>>
lvars == <<rlCount, rlTtl, rlWin, hbCalls>>
ivars == <<initCalls>>
cvars == <<cancelCalls>>
dvars == <<uploadComplete, filesSent>>
nvars == <<useCluster, nodeStatus, dbInactive, shutdownPc>>
sweepvars == <<hbStale, cleanup>>
nonsweepvars == <<evars, uvars, svars, fvars, rvars, lvars, ivars, cvars,
                  dvars, progressLog, ackLog, cbLog>>
zvars == <<progressLog, ackLog, cbLog, sweepvars>>
mvars == <<lvars, ivars, cvars, dvars, nvars, zvars>>
nonlvars == <<ivars, cvars, dvars, nvars, zvars>>
nonivars == <<lvars, cvars, dvars, nvars, zvars>>
noncvars == <<lvars, ivars, dvars, nvars, zvars>>
nondvars == <<lvars, ivars, cvars, nvars, zvars>>
nonnvars == <<lvars, ivars, cvars, dvars, zvars>>
nonzvars == <<lvars, ivars, cvars, dvars, nvars>>
xvars == <<svars, fvars, rvars, mvars>>
vars == <<evars, uvars, xvars>>

\* ================================================================ election
\* a store step that grants the key for twice the lease
SetNXTwiceLease(n) ==
  IF lockHolder = None
    THEN [ok |-> TRUE, holder |-> n, ttl |-> 2 * MASTER_TTL * 1000]
    ELSE [ok |-> FALSE, holder |-> lockHolder, ttl |-> lockTtl]

\* redisClient.set("cluster:master", nodeId, {NX, EX}) : one atomic store step
SetNX(n) ==
  IF lockHolder = None
    THEN [ok |-> TRUE, holder |-> n, ttl |-> MASTER_TTL * 1000]
    ELSE [ok |-> FALSE, holder |-> lockHolder, ttl |-> lockTtl]

\* io.emit("cluster-role-change", {nodeId, role, isMaster})
notifyLocalClientsOfRoleChange(n, r) ==
  /\ roleEvent' = [roleEvent EXCEPT ![n] = r]
  /\ roleCount' = [roleCount EXCEPT ![n] = (@ + 1) % 2]

\* a node that notifies its clients on every tick that finds it master
NotifyAlways(n) ==
  /\ isMaster' = [isMaster EXCEPT ![n] = TRUE]
  /\ role' = [role EXCEPT ![n] = "master"]
  /\ notifyLocalClientsOfRoleChange(n, "master")

\* if (!this.isMaster): isMaster := true with updateRole and
\* notifyLocalClientsOfRoleChange
BecomeMaster(n) ==
  /\ isMaster' = [isMaster EXCEPT ![n] = TRUE]
  /\ role' = IF isMaster[n] THEN role ELSE [role EXCEPT ![n] = "master"]
  /\ IF isMaster[n] THEN UNCHANGED <<roleEvent, roleCount>>
     ELSE notifyLocalClientsOfRoleChange(n, "master")

\* first store call of tryBecomeMaster and the branch result === "OK"
ElectSet(n) ==
  /\ epc[n] = "idle"
  /\ LET r == SetNX(n) IN
       /\ lockHolder' = r.holder
       /\ lockTtl' = r.ttl
       /\ IF r.ok
            THEN BecomeMaster(n) /\ epc' = epc
            ELSE /\ epc' = [epc EXCEPT ![n] = "get"]
                 /\ UNCHANGED <<isMaster, role, roleEvent, roleCount>>
  /\ UNCHANGED <<etime, uvars>>

\* redisClient.get("cluster:master") and the comparison with nodeId
ElectGet(n) ==
  /\ epc[n] = "get"
  /\ IF lockHolder = n
       THEN /\ epc' = [epc EXCEPT ![n] = "expire"]
            /\ UNCHANGED <<isMaster, role, roleEvent, roleCount>>
       ELSE /\ epc' = [epc EXCEPT ![n] = "idle"]
            /\ isMaster' = [isMaster EXCEPT ![n] = FALSE]
            /\ role' = IF isMaster[n] THEN [role EXCEPT ![n] = "worker"] ELSE role
            /\ IF isMaster[n]
                 THEN notifyLocalClientsOfRoleChange(n, "worker")
                 ELSE UNCHANGED <<roleEvent, roleCount>>
  /\ UNCHANGED <<lockHolder, lockTtl, etime, uvars>>

\* redisClient.expire("cluster:master", MASTER_TTL): refreshes whatever key exists
ElectExpire(n) ==
  /\ epc[n] = "expire"
  /\ lockTtl' = IF lockHolder = None THEN lockTtl ELSE MASTER_TTL * 1000
  /\ BecomeMaster(n)
  /\ epc' = [epc EXCEPT ![n] = "idle"]
  /\ UNCHANGED <<lockHolder, etime, uvars>>

\* one election interval passes; the key expires when its TTL runs out
ElectionTimePasses ==
  /\ etime < MaxElectionTime
  /\ etime' = etime + 1
  /\ IF lockHolder # None /\ lockTtl <= ELECTION_INTERVAL
       THEN lockHolder' = None /\ lockTtl' = 0
       ELSE /\ lockHolder' = lockHolder
            /\ lockTtl' = IF lockHolder = None THEN 0
                          ELSE lockTtl - ELECTION_INTERVAL
  /\ UNCHANGED <<isMaster, epc, role, roleEvent, roleCount, uvars>>

\* ------------------------------------------------- election with a failure
\* half an election interval: the grain of time for the failover
FailStep == ELECTION_INTERVAL \div 2

\* setInterval(tryBecomeMaster, ELECTION_INTERVAL) fires on a running node
FailoverTick(n) ==
  /\ alive[n]
  /\ timer[n] = 0
  /\ ElectSet(n)
  /\ timer' = [timer EXCEPT ![n] = ELECTION_INTERVAL]
  /\ UNCHANGED <<alive, failAge, svars, rvars, mvars>>

\* the node holding the lock stops running: no more ticks, no shutdown
MasterFails(n) ==
  /\ failAge < 0
  /\ alive[n] /\ isMaster[n] /\ lockHolder = n
  /\ alive' = [alive EXCEPT ![n] = FALSE]
  /\ failAge' = 0
  /\ UNCHANGED <<evars, uvars, svars, rvars, mvars, timer>>

\* FailStep ms pass once every running node has done the work that is due;
\* the store (reachable, answering at once) expires the key when its TTL ends
FailoverTime ==
  /\ \A n \in Nodes : alive[n] => (timer[n] > 0 /\ epc[n] = "idle")
  /\ timer' = [n \in Nodes |-> IF alive[n] THEN timer[n] - FailStep ELSE timer[n]]
  /\ IF lockHolder # None /\ lockTtl <= FailStep
       THEN lockHolder' = None /\ lockTtl' = 0
       ELSE /\ lockHolder' = lockHolder
            /\ lockTtl' = IF lockHolder = None THEN 0 ELSE lockTtl - FailStep
  /\ failAge' = IF failAge < 0
                    \/ failAge > MASTER_TTL * 1000 + ELECTION_INTERVAL
                  THEN failAge ELSE failAge + FailStep
  /\ UNCHANGED <<isMaster, epc, role, roleEvent, roleCount, etime, uvars, svars, rvars, mvars,
                 alive>>

\* ========================================================= upload state
\* UploadState (types/index.ts FileUpload).  pendingKind tells what the
\* pendingAcks field holds: "undef" (field not set), "map" (a Map, kept in
\* insertion order in pendingAcks) or "obj" (the plain object {} that a Map
\* becomes through JSON.stringify / JSON.parse).  Timestamps are kept as
\* ages: an entry's age is Date.now() - timestamp, lastAckAge is
\* Date.now() - lastAckTime (-1 when lastAckTime is not set).  An age stops
\* growing once it is beyond the ACK timeout (nothing compares it further).
\* checksKind tells what chunkChecksums holds: "undef", "map" (a Map, its
\* entries [chunkIndex, checksum] in insertion order) or "array" (the array
\* of entries that is stored).
NoUpload ==
  [status |-> "absent", totalChunks |-> 0, uploadedChunks |-> {},
   pendingKind |-> "undef", pendingAcks |-> <<>>, lastAckAge |-> -1,
   checksKind |-> "undef", chunkChecksums |-> <<>>, clientId |-> None]

\* getShareSession returns null: no share stored under the id
NoShare == [present |-> FALSE, clients |-> <<>>, status |-> "none",
            lastActivity |-> 0]

Range(s) == {s[x] : x \in DOMAIN s}

\* the elements of a set of numbers as an array (ascending)
RECURSIVE ArrayFrom(_)
ArrayFrom(S) ==
  IF S = {} THEN <<>>
  ELSE LET m == CHOOSE x \in S : \A y \in S : x <= y
       IN <<m>> \o ArrayFrom(S \ {m})

PendingChunks(u) == {e.chunkIndex : e \in Range(u.pendingAcks)}

\* Map.set(chunkIndex, {timestamp: now - a, retries: r}) : replaces in place
\* or appends.  since is the time elapsed from the moment of this set (the
\* ingestion of the chunk); no code reads it.
PendingSet(acks, i, a, r) ==
  IF \E x \in DOMAIN acks : acks[x].chunkIndex = i
    THEN [x \in DOMAIN acks |->
            IF acks[x].chunkIndex = i
              THEN [chunkIndex |-> i, age |-> a, retries |-> r, since |-> 0]
              ELSE acks[x]]
    ELSE Append(acks, [chunkIndex |-> i, age |-> a, retries |-> r, since |-> 0])

\* Map.delete(chunkIndex)
PendingDelete(acks, i) ==
  LET Keep(e) == e.chunkIndex # i IN SelectSeq(acks, Keep)

\* RedisService.setUploadState: {...upload, uploadedChunks: Array.from(..)}
\* through JSON.stringify.  A Map has no enumerable properties, so a Map in
\* pendingAcks is written as {}; an undefined field is left out.
\* chunkChecksums: Array.from(entries()) of a Map, else undefined.
SerializeUpload(u) ==
  [u EXCEPT !.uploadedChunks = ArrayFrom(u.uploadedChunks),
            !.pendingKind = IF u.pendingKind = "undef" THEN "undef" ELSE "obj",
            !.pendingAcks = <<>>,
            !.checksKind = IF u.checksKind = "undef" THEN "undef" ELSE "array"]

\* RedisService.getUploadState / getAllUploadStates: JSON.parse, then
\* uploadedChunks = new Set(array); pendingAcks is left as parsed;
\* chunkChecksums = new Map(array), or new Map() if none was stored.
DeserializeUpload(d) ==
  IF d.status = "absent" THEN NoUpload
  ELSE [d EXCEPT !.uploadedChunks = Range(d.uploadedChunks),
                 !.checksKind = "map"]

\* StorageRepository.getUploadState on node n: the in-process map first,
\* then the distributed backend (the value read is cached in the map).
getUploadState(n, f) ==
  IF fileUploads[n][f].status # "absent" THEN fileUploads[n][f]
  ELSE IF useRedis THEN DeserializeUpload(redisUploads[f])
  ELSE NoUpload

\* StorageRepository.getAllUploadStates on node n
getAllUploadStates(n) ==
  IF useRedis THEN [f \in FileIds |-> DeserializeUpload(redisUploads[f])]
  ELSE fileUploads[n]

\* StorageRepository.setUploadState on node n: distributed write (when
\* configured) and always the in-process map.
setUploadState(n, f, u) ==
  /\ redisUploads' = IF useRedis
                       THEN [redisUploads EXCEPT ![f] = SerializeUpload(u)]
                       ELSE redisUploads
  /\ fileUploads' = [fileUploads EXCEPT ![n][f] = u]

\* a handler keeps mutating the object it loaded; the load itself caches it
CacheOnly(n, f, u) ==
  /\ fileUploads' = [fileUploads EXCEPT ![n][f] = u]
  /\ UNCHANGED redisUploads

\* ================================================== sessions and routing
Sender == "A"
Receiver == "B"
TheShare == "s1"

\* the participants of the sender's share other than the sender that are
\* downloading f (upload-chunk handler, lines 461-477)
RelayTargets(c, f) ==
  LET cs == clientSessions[c] IN
  IF ~cs.present \/ cs.shareId = None THEN {}
  ELSE LET sh == shareSessions[cs.shareId] IN
       IF ~sh.present THEN {}
       ELSE {o \in Range(sh.clients) \ {c} :
               clientSessions[o].present /\ f \in clientSessions[o].downloads}

\* ClusterManager.routeMessageToClient from node n: local socket, or
\* publish on message:route for the node named by the target's session.
RouteKind(n, target) ==
  IF nodeOf[target] = n THEN "local"
  ELSE IF clientSessions[target].present /\ useRedis THEN "publish"
  ELSE "drop"

RouteMsg(target, ev, f, i) ==
  [targetNodeId |-> clientSessions[target].nodeId, targetClientId |-> target,
   event |-> ev, fileId |-> f, chunkIndex |-> i]

\* effect of routing chunk-received for (f, i) from node n to every target
RECURSIVE RouteChunk(_, _, _, _, _)
RouteChunk(n, targets, f, i, acc) ==
  IF targets = {} THEN acc
  ELSE LET t == CHOOSE x \in targets : TRUE
           k == RouteKind(n, t)
           acc2 == IF k = "local"
                     THEN [acc EXCEPT !.recv[t] = Append(@, i)]
                   ELSE IF k = "publish"
                     THEN [acc EXCEPT !.chan =
                             Append(@, RouteMsg(t, "chunk-received", f, i))]
                   ELSE acc
       IN RouteChunk(n, targets \ {t}, f, i, acc2)

\* ======================================================== upload-init
\* uploads of client c in status uploading, as upload-init counts them
ActiveUploads(n, c) ==
  Cardinality({f \in FileIds :
     getAllUploadStates(n)[f].status = "uploading"
     /\ getAllUploadStates(n)[f].clientId = c})

\* receivers upload-init accepts (lines 317-359)
AcceptedReceivers(n, c) ==
  LET cs == clientSessions[c] IN
  IF ~cs.present \/ cs.shareId = None THEN {}
  ELSE LET sh == shareSessions[cs.shareId] IN
       IF ~sh.present THEN {}
       ELSE {o \in Range(sh.clients) \ {c} :
               /\ clientSessions[o].present
               /\ Cardinality(clientSessions[o].downloads) < maxConcurrentDownloads
               /\ Cardinality(clientSessions[o].downloads) + ActiveUploads(n, o)
                      < maxConcurrentTransfers}

NewUpload(c) ==
  [status |-> "uploading", totalChunks |-> TotalChunks, uploadedChunks |-> {},
   pendingKind |-> "undef", pendingAcks |-> <<>>, lastAckAge |-> -1,
   checksKind |-> "undef", chunkChecksums |-> <<>>, clientId |-> c]

\* run-to-completion: with the embedded backend every await of a handler
\* resolves without I/O, so a started handler finishes before another starts
Quiet == useRedis \/ \A k \in DOMAIN reqs : reqs[k].pc \in {"sent", "done"}

\* upload-init of the sender for file f (handled on the sender's node)
UploadInit(f) ==
  LET n == nodeOf[Sender]
      acc == AcceptedReceivers(n, Sender)
      pub == {o \in acc : RouteKind(n, o) = "publish"}
  IN
  /\ Quiet
  /\ getUploadState(n, f).status = "absent"
  /\ ActiveUploads(n, Sender) < maxConcurrentUploads
  /\ ActiveUploads(n, Sender) + Cardinality(clientSessions[Sender].downloads)
        < maxConcurrentTransfers
  /\ setUploadState(n, f, NewUpload(Sender))
  /\ clientSessions' = [o \in Clients |->
        IF o \in acc
          THEN [clientSessions[o] EXCEPT !.downloads = @ \cup {f}]
          ELSE clientSessions[o]]
  /\ msgRoute' = IF pub = {} THEN msgRoute
                 ELSE Append(msgRoute,
                        RouteMsg(CHOOSE o \in pub : TRUE,
                                 "file-transfer-started", f, 0))
  /\ UNCHANGED <<evars, useRedis, nodeOf, shareSessions, reqs, recvLog,
                 retryLog, failLog, ackProcessed>>

\* ======================================================= upload-chunk
TheFile == "f1"

SetPc(k, p) == reqs' = [reqs EXCEPT ![k].pc = p]

\* the sender emits upload-chunk{fileId, chunkIndex, chunk, clientId}; the
\* index is client-supplied (TotalChunks is the first index out of range)
EmitChunk(i) ==
  /\ Quiet
  /\ Len(reqs) < MaxRequests
  /\ Cardinality({k \in DOMAIN reqs : reqs[k].pc # "done"}) < UPLOAD_CONCURRENCY
  /\ reqs' = Append(reqs, [chunkIndex |-> i, pc |-> "sent"])
  /\ UNCHANGED <<evars, useRedis, nodeOf, fileUploads, redisUploads,
                 clientSessions, shareSessions, msgRoute, recvLog, retryLog,
                 failLog, ackProcessed>>

\* lines 423-446: insert into uploadedChunks and pendingAcks.set
IngestChunk(u, i) ==
  IF i \in u.uploadedChunks THEN u
  ELSE [u EXCEPT !.uploadedChunks = @ \cup {i},
                 !.pendingKind = "map",
                 !.pendingAcks = PendingSet(@, i, 0, 0)]

\* lines 411-458: load, status check, insert, chunk-uploaded.  Requests of
\* one connection start in emission order.
Ingest(k) ==
  LET n == nodeOf[Sender]
      i == reqs[k].chunkIndex
      u == getUploadState(n, TheFile)
  IN
  /\ Quiet
  /\ reqs[k].pc = "sent"
  /\ \A j \in 1..(k-1) : reqs[j].pc # "sent"
  /\ IF u.status = "absent"
       THEN SetPc(k, "done") /\ UNCHANGED <<fileUploads, redisUploads>>
     ELSE IF u.status \in {"cancelled", "paused"}
       THEN SetPc(k, "done") /\ CacheOnly(n, TheFile, u)
     ELSE IF i \notin u.uploadedChunks /\ u.pendingKind = "obj"
       \* pendingAcks.set is not a function: the handler throws after the add
       THEN /\ SetPc(k, "done")
            /\ CacheOnly(n, TheFile, [u EXCEPT !.uploadedChunks = @ \cup {i}])
     ELSE SetPc(k, "relay") /\ CacheOnly(n, TheFile, IngestChunk(u, i))
  /\ UNCHANGED <<evars, useRedis, nodeOf, clientSessions, shareSessions,
                 msgRoute, recvLog, retryLog, failLog, ackProcessed>>

\* the completion check without its test of the status
AllChunksUploaded(u) == Cardinality(u.uploadedChunks) = u.totalChunks

\* lines 516-519: the completion check
UploadIsComplete(u) ==
  Cardinality(u.uploadedChunks) = u.totalChunks /\ u.status # "completed"

\* lines 515-521: the transition to completed
CompleteUpload(u) ==
  IF UploadIsComplete(u) THEN [u EXCEPT !.status = "completed"] ELSE u

\* lines 510-557: callback({success: true}) and the completion check
FinishStep(n, f) ==
  LET u == fileUploads[n][f] IN
  IF UploadIsComplete(u)
    THEN setUploadState(n, f, CompleteUpload(u))
    ELSE UNCHANGED <<fileUploads, redisUploads>>

\* lines 520-553, in the branch that sets status = completed:
\* socket.emit("upload-complete") and StatsService.incrementFilesSent
\* (stats.service.ts 47-51)
incrementFilesSent == filesSent' = filesSent + 1

UploadCompleteEffects(k, n, f) ==
  IF reqs'[k].pc = "done" /\ UploadIsComplete(fileUploads[n][f])
    THEN /\ uploadComplete' = [uploadComplete EXCEPT ![f] = @ + 1]
         /\ incrementFilesSent
    ELSE UNCHANGED dvars

\* lines 489-504: after chunk-received was routed to a recipient, the
\* handler routes chunk-acknowledged{fileId, chunkIndex} to the sender, on
\* whose node it runs.  The event goes out on the sender's socket; the
\* server's own chunk-acknowledged handler is not run by it.
SynthesizedAck(k, f) ==
  ackLog' = IF reqs[k].pc = "relay" /\ RelayTargets(Sender, f) # {}
              THEN ackLog \cup {reqs[k].chunkIndex}
              ELSE ackLog

\* lines 413-421: the upload is missing, cancelled or paused
Rejected(u) == u.status \in {"absent", "cancelled", "paused"}

\* the acknowledgment callback of request k: callback({error}) in the
\* rejections (lines 413-421), callback({success: true}) once the relay
\* loop is through (lines 510-513); a handler that throws in between calls
\* nothing, safeHandler (error.utils.ts 138-152) only logs the error
Callback(k, n, f) ==
  cbLog' = IF reqs[k].pc = "sent" /\ reqs'[k].pc = "done"
                /\ Rejected(getUploadState(n, f))
             THEN [cbLog EXCEPT ![k] = Append(@, "error")]
           ELSE IF reqs[k].pc \in {"relay", "finish"} /\ reqs'[k].pc = "done"
             THEN [cbLog EXCEPT ![k] = Append(@, "success")]
           ELSE cbLog

\* the sender's socket drops and the client registers again through node n
\* (socket.handler.ts 130-170): a new ClientSession is stored for it
SenderReconnects(n) ==
  /\ useRedis
  /\ nodeOf[Sender] # n
  /\ \A k \in DOMAIN reqs : reqs[k].pc = "done"
  /\ nodeOf' = [nodeOf EXCEPT ![Sender] = n]
  /\ clientSessions' = [clientSessions EXCEPT ![Sender] =
        [present |-> TRUE, nodeId |-> n, connected |-> TRUE,
         downloads |-> {}, shareId |-> None]]
  /\ UNCHANGED <<evars, useRedis, fileUploads, redisUploads, shareSessions,
                 reqs, msgRoute, recvLog, retryLog, failLog, ackProcessed>>

\* Math.floor(num / den)
MathFloor(num, den) == num \div den

\* Math.round(num / den) for num >= 0, den > 0: to the nearest integer,
\* halves upwards
MathRound(num, den) == (2 * num + den) \div (2 * den)

\* lines 448-455: Math.round((uploadedChunks.size / totalChunks) * 100)
Progress(u) == MathRound(Cardinality(u.uploadedChunks) * 100, u.totalChunks)

\* lines 448-458: socket.emit("chunk-uploaded", {progress, ...}), reached
\* by the requests that pass the status checks and the insertion
ChunkUploaded(k, n, f) ==
  progressLog' = IF reqs'[k].pc = "relay"
                   THEN Append(progressLog, Progress(fileUploads'[n][f]))
                   ELSE progressLog

\* The handlers of one node issue their store commands on one client
\* connection, which answers in the order of issue: of two handlers waiting
\* at the same await, the one that started first resumes first.
InOrder(k, p) == \A j \in 1..(k-1) : reqs[j].pc # p

\* lines 460-508: relay chunk-received to the share's other participants.
\* A local emit is followed by the completion check without I/O; a publish
\* on message:route is awaited first.
Relay(k) ==
  LET n == nodeOf[Sender]
      i == reqs[k].chunkIndex
      targets == RelayTargets(Sender, TheFile)
      routed == RouteChunk(n, targets, TheFile, i,
                           [recv |-> recvLog, chan |-> msgRoute])
  IN
  /\ reqs[k].pc = "relay"
  /\ InOrder(k, "relay")
  /\ recvLog' = routed.recv
  /\ msgRoute' = routed.chan
  /\ IF routed.chan # msgRoute
       THEN SetPc(k, "finish") /\ UNCHANGED <<fileUploads, redisUploads>>
       ELSE SetPc(k, "done") /\ FinishStep(n, TheFile)
  /\ UNCHANGED <<evars, useRedis, nodeOf, clientSessions, shareSessions,
                 retryLog, failLog, ackProcessed>>

Finish(k) ==
  /\ reqs[k].pc = "finish"
  /\ InOrder(k, "relay") /\ InOrder(k, "finish")
  /\ SetPc(k, "done")
  /\ FinishStep(nodeOf[Sender], TheFile)
  /\ UNCHANGED <<evars, useRedis, nodeOf, clientSessions, shareSessions,
                 msgRoute, recvLog, retryLog, failLog, ackProcessed>>

\* a channel that hands over its messages in any order
DeliverAnyOrder ==
  /\ msgRoute # <<>>
  /\ \E p \in DOMAIN msgRoute :
       LET m == msgRoute[p] IN
       /\ recvLog' = IF m.event = "chunk-received"
                          /\ nodeOf[m.targetClientId] = m.targetNodeId
                       THEN [recvLog EXCEPT ![m.targetClientId] = Append(@, m.chunkIndex)]
                       ELSE recvLog
       /\ msgRoute' = SubSeq(msgRoute, 1, p - 1)
                        \o SubSeq(msgRoute, p + 1, Len(msgRoute))
  /\ UNCHANGED <<evars, useRedis, nodeOf, fileUploads, redisUploads,
                 clientSessions, shareSessions, reqs, retryLog, failLog,
                 ackProcessed>>

\* message:route subscription of the target node (cluster.service.ts 185-216)
Deliver ==
  /\ msgRoute # <<>>
  /\ LET m == Head(msgRoute) IN
       recvLog' = IF m.event = "chunk-received"
                       /\ nodeOf[m.targetClientId] = m.targetNodeId
                    THEN [recvLog EXCEPT ![m.targetClientId] = Append(@, m.chunkIndex)]
                    ELSE recvLog
  /\ msgRoute' = Tail(msgRoute)
  /\ UNCHANGED <<evars, useRedis, nodeOf, fileUploads, redisUploads,
                 clientSessions, shareSessions, reqs, retryLog, failLog,
                 ackProcessed>>

\* ================================================== chunk-acknowledged
\* lines 563-580, handled on the node of the acknowledging client
AckChunk(u, i) ==
  [u EXCEPT !.pendingAcks = PendingDelete(@, i), !.lastAckAge = 0]

ChunkAcknowledged(c, i) ==
  LET n == nodeOf[c]
      u == getUploadState(n, TheFile)
  IN
  /\ Quiet
  /\ c = Receiver
  /\ i \in Range(recvLog[c])
  /\ i \notin ackProcessed
  /\ IF u.status = "absent" THEN UNCHANGED <<fileUploads, redisUploads>>
     ELSE IF u.pendingKind = "map" THEN setUploadState(n, TheFile, AckChunk(u, i))
     \* undefined: nothing to do; {}: pendingAcks.delete is not a function
     ELSE CacheOnly(n, TheFile, u)
  /\ ackProcessed' = ackProcessed \cup {i}
  /\ UNCHANGED <<evars, useRedis, nodeOf, clientSessions, shareSessions,
                 reqs, msgRoute, recvLog, retryLog, failLog>>

\* ================================================= ACK-timeout checker
Expired(e) == e.age > ACK_TIMEOUT_MS

\* lines 52-66: an expired entry is a failure when its retries reached
\* MAX_RETRIES, otherwise it is retried
IsFailedLate(e) == Expired(e) /\ e.retries > MAX_RETRIES
IsFailed(e) == Expired(e) /\ e.retries >= MAX_RETRIES
IsTimedOut(e) == Expired(e) /\ ~IsFailed(e)

\* lines 62-63: ackInfo.retries++, ackInfo.timestamp = now
RetryEntryKeepsAge(e) == [e EXCEPT !.retries = @ + 1]
RetryEntry(e) == [e EXCEPT !.retries = @ + 1, !.age = 0]

ScanAcks(acks) ==
  [x \in DOMAIN acks |-> IF IsTimedOut(acks[x]) THEN RetryEntry(acks[x])
                         ELSE acks[x]]

\* lines 76-81: chunk-retry{fileId, chunkIndex, attempt} for the timed-out
\* chunks, in the iteration order of the Map, read after the increment
RetryEvents(acks) ==
  LET T(e) == IsTimedOut(e)
      timedOut == SelectSeq(acks, T)
  IN [x \in DOMAIN timedOut |->
        [chunkIndex |-> timedOut[x].chunkIndex,
         attempt |-> RetryEntry(timedOut[x]).retries]]

FailedChunks(acks) == LET F(e) == IsFailed(e) IN SelectSeq(acks, F)

\* lines 41-47: the uploads the scan looks at
ScanSkips(u) ==
  \/ u.status # "uploading"
  \/ u.pendingKind = "undef"
  \/ (u.pendingKind = "map" /\ u.pendingAcks = <<>>)

\* the sender's socket is held by the scanning node
SenderSocket(n, u) ==
  clientSessions[u.clientId].present /\ nodeOf[u.clientId] = n

\* one run of the interval callback on node n (lines 36-125)
Scan(n) ==
  LET u == getAllUploadStates(n)[TheFile]
      retries == RetryEvents(u.pendingAcks)
      failed == FailedChunks(u.pendingAcks)
      scanned == [u EXCEPT !.pendingAcks = ScanAcks(@)]
  IN
  /\ Quiet
  /\ useRedis \/ n = nodeOf[Sender]
  /\ IF ScanSkips(u) \/ u.pendingKind = "obj"
       \* skipped, or {} is not iterable and the callback throws
       THEN UNCHANGED <<fileUploads, redisUploads, retryLog, failLog>>
       ELSE /\ retryLog' = IF SenderSocket(n, u) THEN retryLog \o retries
                           ELSE retryLog
            /\ failLog' = failLog \cup
                  {[chunkIndex |-> e.chunkIndex, retries |-> e.retries] :
                     e \in Range(failed)}
            /\ IF failed # <<>>
                 THEN setUploadState(n, TheFile,
                                     [scanned EXCEPT !.status = "failed"])
               ELSE IF retries # <<>>
                 THEN setUploadState(n, TheFile, scanned)
               ELSE UNCHANGED <<fileUploads, redisUploads>>
  /\ UNCHANGED <<evars, useRedis, nodeOf, clientSessions, shareSessions,
                 reqs, msgRoute, recvLog, ackProcessed>>

\* time passes, three check intervals at a time: every stored timestamp
\* grows older
TimeStep == 3 * CHECK_INTERVAL_MS

Older(a) == IF a < 0 \/ a > ACK_TIMEOUT_MS THEN a ELSE a + TimeStep

\* time since ingestion, followed until it is beyond MAX_RETRIES + 1 timeouts
Elapsed(t) ==
  IF t > (MAX_RETRIES + 1) * ACK_TIMEOUT_MS THEN t ELSE t + TimeStep

AgeUpload(u) ==
  [u EXCEPT !.lastAckAge = Older(@),
            !.pendingAcks = [x \in DOMAIN @ |->
                               [@[x] EXCEPT !.age = Older(@),
                                            !.since = Elapsed(@)]]]

AgeStored(d) == [d EXCEPT !.lastAckAge = Older(@)]

Tick ==
  /\ Quiet
  /\ fileUploads' = [n \in Nodes |-> [f \in FileIds |-> AgeUpload(fileUploads[n][f])]]
  /\ redisUploads' = [f \in FileIds |-> AgeStored(redisUploads[f])]
  /\ fileUploads' # fileUploads \/ redisUploads' # redisUploads
  /\ UNCHANGED <<evars, useRedis, nodeOf,
                 clientSessions, shareSessions, reqs, msgRoute, recvLog,
                 retryLog, failLog, ackProcessed>>

\* ====================================================== share admission
\* ShareController.joinShare lines 74-86: the checks on the session read
JoinCheckLax(sh) ==
  IF ~sh.present THEN "NOT_FOUND"
  ELSE IF sh.status = "inactive" THEN "BAD_REQUEST"
  ELSE IF Len(sh.clients) > 2 THEN "SHARE_SESSION_FULL"
  ELSE "ok"
JoinCheck(sh) ==
  IF ~sh.present THEN "NOT_FOUND"
  ELSE IF sh.status = "inactive" THEN "BAD_REQUEST"
  ELSE IF Len(sh.clients) >= 2 THEN "SHARE_SESSION_FULL"
  ELSE "ok"

\* ShareController.createShare lines 17-22, for a custom shareId
CreateCheck(sh) == IF sh.present THEN "CONFLICT" ELSE "ok"

\* a clients array holding the given clientIds
RECURSIVE ArrayOfClients(_)
ArrayOfClients(S) ==
  IF S = {} THEN <<>>
  ELSE LET c == CHOOSE x \in S : TRUE IN <<c>> \o ArrayOfClients(S \ {c})

\* statusCode of the AppError each ErrorFactory method builds
HttpStatus(code) ==
  CASE code = "NOT_FOUND" -> 404
    [] code = "BAD_REQUEST" -> 400
    [] code = "SHARE_SESSION_FULL" -> 409
    [] code = "CONFLICT" -> 409
    [] OTHER -> 200

HttpReq(op, c, s, pc, sh, res) ==
  [op |-> op, clientId |-> c, shareId |-> s, pc |-> pc, loaded |-> sh,
   result |-> res]

\* clientSession.shareId = shareId, when the client has a session
SetShareOfClient(c, s) ==
  clientSessions' = IF clientSessions[c].present
                      THEN [clientSessions EXCEPT ![c].shareId = s]
                      ELSE clientSessions

\* joinShare lines 88-124 on the session object sh the handler holds
JoinCommit(k, c, s, sh) ==
  LET joined == [sh EXCEPT !.clients = Append(@, c),
                           !.lastActivity = @ + 1]
  IN /\ shareSessions' = [shareSessions EXCEPT ![s] = joined]
     /\ SetShareOfClient(c, s)
     /\ shareEvents' = shareEvents \cup
          {[req |-> k, event |-> e, to |-> cid] :
             e \in {"connection-ready", "client-joined-share"},
             cid \in Range(joined.clients)}

\* createShare lines 30-65
CreateCommit(k, c, s) ==
  /\ shareSessions' = [shareSessions EXCEPT ![s] =
        [present |-> TRUE, clients |-> <<c>>, status |-> "active",
         lastActivity |-> 0]]
  /\ SetShareOfClient(c, s)
  /\ shareEvents' = shareEvents \cup
        {[req |-> k, event |-> "connection-ready", to |-> c]}

\* POST /api/share/join arrives: read and checks; with the embedded backend
\* the write follows without I/O, with the distributed backend the handler
\* waits for the store between the read and the write
JoinShareLoad(c, s) ==
  LET sh == shareSessions[s]
      out == JoinCheck(sh)
      k == Len(httpReqs) + 1
  IN
  /\ Len(httpReqs) < MaxHttp
  /\ IF out # "ok"
       THEN /\ httpReqs' = Append(httpReqs, HttpReq("join", c, s, "done", sh, out))
            /\ UNCHANGED <<shareSessions, clientSessions, shareEvents>>
     ELSE IF useRedis
       THEN /\ httpReqs' = Append(httpReqs,
                                  HttpReq("join", c, s, "loaded", sh, "pending"))
            /\ UNCHANGED <<shareSessions, clientSessions, shareEvents>>
     ELSE /\ httpReqs' = Append(httpReqs,
                                HttpReq("join", c, s, "done", sh, "success"))
          /\ JoinCommit(k, c, s, sh)
  /\ UNCHANGED <<evars, useRedis, nodeOf, fileUploads, redisUploads, reqs,
                 msgRoute, recvLog, retryLog, failLog, ackProcessed>>

JoinShareStore(k) ==
  /\ httpReqs[k].op = "join" /\ httpReqs[k].pc = "loaded"
  /\ httpReqs' = [httpReqs EXCEPT ![k].pc = "done", ![k].result = "success"]
  /\ JoinCommit(k, httpReqs[k].clientId, httpReqs[k].shareId, httpReqs[k].loaded)
  /\ UNCHANGED <<evars, useRedis, nodeOf, fileUploads, redisUploads, reqs,
                 msgRoute, recvLog, retryLog, failLog, ackProcessed>>

\* POST /api/share/create with a custom shareId
CreateShareLoad(c, s) ==
  LET sh == shareSessions[s]
      out == CreateCheck(sh)
      k == Len(httpReqs) + 1
  IN
  /\ Len(httpReqs) < MaxHttp
  /\ IF out # "ok"
       THEN /\ httpReqs' = Append(httpReqs, HttpReq("create", c, s, "done", sh, out))
            /\ UNCHANGED <<shareSessions, clientSessions, shareEvents>>
     ELSE IF useRedis
       THEN /\ httpReqs' = Append(httpReqs,
                                  HttpReq("create", c, s, "loaded", sh, "pending"))
            /\ UNCHANGED <<shareSessions, clientSessions, shareEvents>>
     ELSE /\ httpReqs' = Append(httpReqs,
                                HttpReq("create", c, s, "done", sh, "success"))
          /\ CreateCommit(k, c, s)
  /\ UNCHANGED <<evars, useRedis, nodeOf, fileUploads, redisUploads, reqs,
                 msgRoute, recvLog, retryLog, failLog, ackProcessed>>

CreateShareStore(k) ==
  /\ httpReqs[k].op = "create" /\ httpReqs[k].pc = "loaded"
  /\ httpReqs' = [httpReqs EXCEPT ![k].pc = "done", ![k].result = "success"]
  /\ CreateCommit(k, httpReqs[k].clientId, httpReqs[k].shareId)
  /\ UNCHANGED <<evars, useRedis, nodeOf, fileUploads, redisUploads, reqs,
                 msgRoute, recvLog, retryLog, failLog, ackProcessed>>

\* socket disconnect of client c (socket.handler.ts 691-760): the client is
\* filtered out of the share its session names, an empty share is deleted
Disconnect(c) ==
  LET cs == clientSessions[c]
      s == cs.shareId
      KeepOther(cid) == cid # c
  IN
  /\ cs.present /\ cs.connected
  /\ clientSessions' = [clientSessions EXCEPT ![c].connected = FALSE]
  /\ IF s # None /\ shareSessions[s].present
       THEN LET rest == SelectSeq(shareSessions[s].clients, KeepOther) IN
            /\ shareSessions' = [shareSessions EXCEPT ![s] =
                  IF rest = <<>> THEN NoShare
                  ELSE [shareSessions[s] EXCEPT !.clients = rest]]
            /\ shareEvents' = shareEvents \cup
                  {[req |-> 0, event |-> "client-disconnected-from-share",
                    to |-> cid] : cid \in Range(rest)}
       ELSE UNCHANGED <<shareSessions, shareEvents>>
  /\ UNCHANGED <<evars, useRedis, nodeOf, fileUploads, redisUploads, reqs,
                 msgRoute, recvLog, retryLog, failLog, ackProcessed, httpReqs>>

\* ================================================ routing between nodes
\* socket.id of the g-th socket a client opened; ids are never reused
SockId(c, g) == [client |-> c, gen |-> g]
NoSocket == [client |-> None, gen |-> 0]

\* the clients whose messages are routed, and the clients that connect
RouteTargets == {Receiver}
RouteClients == {Receiver, "C"}

\* PubSubChannels (stats.service.ts 265, 268)
MESSAGE_ROUTE == "message:route"
ROUTING_REQUEST == "routing:request"

\* PubSubService.publish: the store hands the message to the subscriber
\* connection of every node, the publisher's included.  mid numbers the
\* published messages.
PublishAll(st, m) ==
  LET msg == [m EXCEPT !.mid = Len(st.published) + 1]
  IN [st EXCEPT !.inbox = [n \in Nodes |-> Append(st.inbox[n], msg)],
                !.published = Append(st.published, msg)]

\* socket.emit(event, payload) on socket sid of node n
EmitOn(st, p, via, n, sid) ==
  [st EXCEPT !.emits = Append(st.emits,
      [payload |-> p, via |-> via, node |-> n, socketId |-> sid])]

RouteState == [inbox |-> routeInbox, published |-> published, emits |-> emitLog]

\* a message for a channel; gap records whether no node was master when it
\* was built (no code reads it)
Message(ch, p, tn, tc, sid) ==
  [mid |-> 0, channel |-> ch, payload |-> p, targetNodeId |-> tn,
   targetClientId |-> tc, socketId |-> sid,
   gap |-> \A n \in Nodes : ~isMaster[n]]

\* for (const session of sessions) of the master, newest session first
\* (getClientSessions orders by createdAt desc): a session of this node is
\* emitted to if its socket is there, another node's is published on
\* message:route; tc is the targetClientId put into that message
RECURSIVE DispatchSessions(_, _, _, _, _, _)
DispatchSessions(n, rows, p, tc, via, st) ==
  IF rows = {} THEN st
  ELSE LET r == CHOOSE x \in rows :
                  \A y \in rows : y.socketId.gen <= x.socketId.gen
           st2 == IF r.nodeId = n
                    THEN IF r.socketId \in sockets[n]
                           THEN EmitOn(st, p, via, n, r.socketId)
                           ELSE st
                    ELSE PublishAll(st,
                           Message(MESSAGE_ROUTE, p, r.nodeId, tc, r.socketId))
       IN DispatchSessions(n, rows \ {r}, p, tc, via, st2)

\* a subscription that looks the socket up by targetClientId only
MessageRouteSocketByClient(n, m) ==
  IF m.targetNodeId # n THEN NoSocket
  ELSE IF m.targetClientId # None
          /\ localClients[n][m.targetClientId] \in sockets[n]
    THEN localClients[n][m.targetClientId]
  ELSE NoSocket

\* the socket the message:route subscription of node n emits on, NoSocket
\* if none (cluster.service.ts 185-216): only the node named by
\* targetNodeId acts; the socket named by socketId, else the one the local
\* cache has for targetClientId
MessageRouteSocket(n, m) ==
  IF m.targetNodeId # n THEN NoSocket
  ELSE IF m.socketId \in sockets[n] THEN m.socketId
  ELSE IF m.targetClientId # None
          /\ localClients[n][m.targetClientId] \in sockets[n]
    THEN localClients[n][m.targetClientId]
  ELSE NoSocket

\* register on a new socket of node n (socket.handler.ts 130-183) with
\* ClusterManager.handleClientConnect (269-304)
RegisterClient(c, n) ==
  LET sid == SockId(c, sockGen[c] + 1) IN
  /\ sockGen[c] < MaxSockets
  /\ sockGen' = [sockGen EXCEPT ![c] = @ + 1]
  /\ sockets' = [sockets EXCEPT ![n] = @ \cup {sid}]
  /\ clientSessions' = [clientSessions EXCEPT ![c] =
        [present |-> TRUE, nodeId |-> n, connected |-> TRUE,
         downloads |-> {}, shareId |-> None]]
  /\ sessSocket' = [sessSocket EXCEPT ![c] = sid]
  /\ dbSessions' = [dbSessions EXCEPT ![c] =
        @ \cup {[nodeId |-> n, socketId |-> sid]}]
  /\ localClients' = [localClients EXCEPT ![n][c] = sid]
  /\ UNCHANGED <<evars, useRedis, nodeOf, fileUploads, redisUploads,
                 shareSessions, reqs, msgRoute, recvLog, retryLog, failLog,
                 ackProcessed, svars, fvars, mvars, routeInbox, published, emitLog,
                 routeSeq>>

\* disconnect of socket sid of node n (socket.handler.ts 691-760) with
\* ClusterManager.handleClientDisconnect (309-335): the SessionService row
\* of the socket is deleted and the client leaves the local cache; the
\* ClientSession is touched only if it names this socket
SocketCloses(n, sid) ==
  LET c == sid.client IN
  /\ sid \in sockets[n]
  /\ sockets' = [sockets EXCEPT ![n] = @ \ {sid}]
  /\ IF \E r \in dbSessions[c] : r.socketId = sid
       THEN /\ dbSessions' = [dbSessions EXCEPT ![c] =
                  {r \in @ : r.socketId # sid}]
            /\ localClients' = [localClients EXCEPT ![n][c] = NoSocket]
       ELSE UNCHANGED <<dbSessions, localClients>>
  /\ IF clientSessions[c].present /\ sessSocket[c] = sid
       THEN Disconnect(c)
       ELSE UNCHANGED <<evars, uvars, svars>>
  /\ UNCHANGED <<fvars, mvars, sockGen, sessSocket, routeInbox, published, emitLog,
                 routeSeq>>

\* the ClientSession key of c runs out (setEx with TTL.CLIENT_SESSION,
\* redis.service.ts 13-16; nothing rewrites it while the client is idle)
SessionExpires(c) ==
  /\ clientSessions[c].present
  /\ clientSessions' = [clientSessions EXCEPT ![c].present = FALSE]
  /\ UNCHANGED <<evars, useRedis, nodeOf, fileUploads, redisUploads,
                 shareSessions, reqs, msgRoute, recvLog, retryLog, failLog,
                 ackProcessed, svars, fvars, mvars, rvars>>

\* ClusterManager.routeMessageToClient(c, event, payload) on node n
\* (cluster.service.ts 374-488); the payload is numbered p
RouteTo(n, c) ==
  LET p == routeSeq + 1
      cached == localClients[n][c]
      stale == cached # NoSocket /\ cached \notin sockets[n]
      sess == clientSessions[c]
      st == RouteState
      out ==
        IF cached # NoSocket /\ cached \in sockets[n]
          THEN EmitOn(st, p, 0, n, cached)
        ELSE IF sess.present
          THEN IF sess.nodeId = n
                 THEN IF sessSocket[c] \in sockets[n]
                        THEN EmitOn(st, p, 0, n, sessSocket[c])
                        ELSE st
                 ELSE PublishAll(st, Message(MESSAGE_ROUTE, p, sess.nodeId,
                                             c, sessSocket[c]))
        ELSE IF ~isMaster[n]
          THEN PublishAll(st, Message(ROUTING_REQUEST, p, None, c, NoSocket))
        ELSE DispatchSessions(n, dbSessions[c], p, c, 0, st)
  IN
  /\ routeSeq < MaxRoutes
  /\ routeSeq' = p
  /\ localClients' = IF stale THEN [localClients EXCEPT ![n][c] = NoSocket]
                      ELSE localClients
  /\ routeInbox' = out.inbox
  /\ published' = out.published
  /\ emitLog' = out.emits
  /\ UNCHANGED <<evars, uvars, svars, fvars, mvars, sockets, sockGen, sessSocket,
                 dbSessions>>

\* node n handles the next published message (PubSubService.handleMessage,
\* stats.service.ts 144-164, into the handlers of cluster.service.ts
\* 185-216 and 219-261); a routing:request is dropped by a node that is
\* not master
RouteConsume(n) ==
  LET m == Head(routeInbox[n])
      st == [RouteState EXCEPT !.inbox[n] = Tail(@)]
      sid == MessageRouteSocket(n, m)
      out ==
        IF m.channel = MESSAGE_ROUTE
          THEN IF sid # NoSocket THEN EmitOn(st, m.payload, m.mid, n, sid)
               ELSE st
        ELSE IF ~isMaster[n] THEN st
        ELSE DispatchSessions(n, dbSessions[m.targetClientId], m.payload,
                              None, m.mid, st)
  IN
  /\ routeInbox[n] # <<>>
  /\ routeInbox' = out.inbox
  /\ published' = out.published
  /\ emitLog' = out.emits
  /\ UNCHANGED <<evars, uvars, svars, fvars, mvars, sockets, sockGen, sessSocket,
                 dbSessions, localClients, routeSeq>>

\* ================================================== pub/sub payloads
\* the byte values a buffer is drawn from
ByteValues == {0, 65, 255}

\* the padding character '=' of base64, next to the 64 digits 0..63
Base64Pad == 64

\* Buffer.toString('base64'): three bytes to four digits, the last group
\* padded
RECURSIVE Base64Encode(_)
Base64Encode(b) ==
  IF Len(b) = 0 THEN <<>>
  ELSE IF Len(b) = 1
    THEN <<b[1] \div 4, (b[1] % 4) * 16, Base64Pad, Base64Pad>>
  ELSE IF Len(b) = 2
    THEN <<b[1] \div 4, (b[1] % 4) * 16 + b[2] \div 16, (b[2] % 16) * 4,
           Base64Pad>>
  ELSE <<b[1] \div 4, (b[1] % 4) * 16 + b[2] \div 16,
         (b[2] % 16) * 4 + b[3] \div 64, b[3] % 64>>
         \o Base64Encode(SubSeq(b, 4, Len(b)))

\* Buffer.from(text, 'base64')
RECURSIVE Base64Decode(_)
Base64Decode(t) ==
  IF Len(t) < 4 THEN <<>>
  ELSE LET b1 == t[1] * 4 + t[2] \div 16
           rest == Base64Decode(SubSeq(t, 5, Len(t)))
       IN IF t[3] = Base64Pad THEN <<b1>>
          ELSE LET b2 == (t[2] % 16) * 16 + t[3] \div 4 IN
               IF t[4] = Base64Pad THEN <<b1, b2>>
               ELSE <<b1, b2, (t[3] % 4) * 64 + t[4]>> \o rest

\* a value of a payload field: a Buffer of bytes, or the object
\* {_base64: text} that stands for it in the JSON text
BufferValue(b) == [kind |-> "Buffer", val |-> b]
Base64Object(t) == [kind |-> "_base64", val |-> t]

\* the replacer of PubSubService.serialize on one value (stats.service.ts
\* 114-126): a Buffer becomes {_base64: ...}
SerializeValue(v) ==
  IF v.kind = "Buffer" THEN Base64Object(Base64Encode(v.val)) ELSE v

\* the reviver of PubSubService.deserialize on one value (131-138):
\* value && typeof value === 'object' && value._base64, where the empty
\* string is falsy
DeserializeValue(v) ==
  IF v.kind = "_base64" /\ v.val # <<>>
    THEN BufferValue(Base64Decode(v.val))
    ELSE v

serialize(pl) == [pl EXCEPT !.chunk = SerializeValue(@)]

deserialize(txt) == [txt EXCEPT !.chunk = DeserializeValue(@)]

\* the chunk-received payloads handed to publish: a buffer of up to
\* MaxBytes bytes next to the other fields
Payloads ==
  {[fileId |-> f, chunkIndex |-> i, chunk |-> BufferValue(b),
    totalChunks |-> TotalChunks] :
     f \in FileIds, i \in 0..(TotalChunks - 1),
     b \in UNION {[1..k -> ByteValues] : k \in 0..MaxBytes}}

\* PubSubService.publish(channel, payload) on node n (169-188): the
\* serialized text reaches every node's subscriber
PayloadPublish(n, pl) ==
  /\ published = <<>>
  /\ published' = <<pl>>
  /\ routeInbox' = [q \in Nodes |->
        Append(routeInbox[q], [mid |-> 1, by |-> n, text |-> serialize(pl)])]
  /\ UNCHANGED <<evars, uvars, svars, fvars, mvars, sockets, sockGen, sessSocket,
                 dbSessions, localClients, emitLog, routeSeq>>

\* PubSubService.handleMessage on node n (144-164): the text is
\* deserialized and handed to the channel's handlers
PayloadReceive(n) ==
  /\ routeInbox[n] # <<>>
  /\ routeInbox' = [routeInbox EXCEPT ![n] = Tail(@)]
  /\ emitLog' = Append(emitLog,
        [payload |-> deserialize(Head(routeInbox[n]).text),
         via |-> Head(routeInbox[n]).mid, node |-> n, socketId |-> NoSocket])
  /\ UNCHANGED <<evars, uvars, svars, fvars, mvars, sockets, sockGen, sessSocket,
                 dbSessions, localClients, published, routeSeq>>

\* ============================================ upload-init, step by step
\* downloads a client has open when the requests below arrive: one less
\* than maxConcurrentTransfers
OtherDownloads == {"d1", "d2", "d3", "d4"}

SetInit(k, call) == initCalls' = [initCalls EXCEPT ![k] = call]

\* the other participants of the sender's share (lines 311-320)
OtherClients(c) ==
  LET cs == clientSessions[c] IN
  IF ~cs.present \/ cs.shareId = None THEN <<>>
  ELSE IF ~shareSessions[cs.shareId].present THEN <<>>
  ELSE LET NotSender(o) == o # c
       IN SelectSeq(shareSessions[cs.shareId].clients, NotSender)

\* upload-init{clientId, fileName, fileSize, totalChunks} of client c
\* arrives (lines 221-252); f is the fileId the handler will generate,
\* big tells fileSize > maxFileSize.  getAllUploadStates is read and the
\* sender's uploads in status uploading are counted.  With the embedded
\* backend a handler runs to completion before the next one starts.
UploadInitStart(c, f, big) ==
  LET n == nodeOf[c]
      active == [o \in Clients |-> ActiveUploads(n, o)]
      call == [clientId |-> c, fileId |-> f, tooLarge |-> big,
               pc |-> IF active[c] >= maxConcurrentUploads
                        THEN "done" ELSE "validate",
               active |-> active, todo |-> <<>>,
               other |-> clientSessions[c], accepted |-> {},
               result |-> IF active[c] >= maxConcurrentUploads
                            THEN "UPLOAD_FAILED" ELSE "pending"]
  IN
  /\ Len(initCalls) < MaxInits
  /\ useRedis \/ \A k \in DOMAIN initCalls : initCalls[k].pc = "done"
  /\ \A k \in DOMAIN initCalls : initCalls[k].fileId # f
  /\ \A q \in Nodes : getUploadState(q, f).status = "absent"
  /\ initCalls' = Append(initCalls, call)
  /\ UNCHANGED <<evars, uvars, svars, fvars, rvars, nonivars>>

\* lines 254-284: the sender's session is read, the transfer budget and
\* the file size are checked, the UploadState is written
UploadInitValidate(k) ==
  LET call == initCalls[k]
      c == call.clientId
      down == IF clientSessions[c].present
                THEN Cardinality(clientSessions[c].downloads) ELSE 0
  IN
  /\ call.pc = "validate"
  /\ IF call.active[c] + down >= maxConcurrentTransfers
       THEN /\ SetInit(k, [call EXCEPT !.pc = "done", !.result = "UPLOAD_FAILED"])
            /\ UNCHANGED <<fileUploads, redisUploads>>
     ELSE IF call.tooLarge
       THEN /\ SetInit(k, [call EXCEPT !.pc = "done", !.result = "FILE_TOO_LARGE"])
            /\ UNCHANGED <<fileUploads, redisUploads>>
     ELSE /\ SetInit(k, [call EXCEPT !.pc = "share"])
          /\ setUploadState(nodeOf[c], call.fileId, NewUpload(c))
  /\ UNCHANGED <<evars, useRedis, nodeOf, clientSessions, shareSessions, reqs,
                 msgRoute, recvLog, retryLog, failLog, ackProcessed, svars,
                 fvars, rvars, nonivars>>

\* lines 307-320: the sender's session and its share are read
UploadInitShare(k) ==
  LET call == initCalls[k] IN
  /\ call.pc = "share"
  /\ SetInit(k, [call EXCEPT !.pc = "receivers",
                             !.todo = OtherClients(call.clientId)])
  /\ UNCHANGED <<evars, uvars, svars, fvars, rvars, nonivars>>

\* lines 322-347: the next receiver's session is read and checked against
\* the download limit and, with the uploads counted at the start, against
\* the transfer budget
UploadInitLoadReceiver(k) ==
  LET call == initCalls[k]
      o == Head(call.todo)
      os == clientSessions[o]
      busy == \/ ~os.present
              \/ Cardinality(os.downloads) >= maxConcurrentDownloads
              \/ Cardinality(os.downloads) + call.active[o]
                    >= maxConcurrentTransfers
  IN
  /\ call.pc = "receivers" /\ call.todo # <<>>
  /\ SetInit(k, IF busy THEN [call EXCEPT !.todo = Tail(@)]
                ELSE [call EXCEPT !.pc = "push", !.other = os])
  /\ UNCHANGED <<evars, uvars, svars, fvars, rvars, nonivars>>

\* lines 349-352: downloads.push(fileId) on the session read before, and
\* setClientSession of it
UploadInitPushReceiver(k) ==
  LET call == initCalls[k]
      o == Head(call.todo)
  IN
  /\ call.pc = "push"
  /\ clientSessions' = [clientSessions EXCEPT ![o] =
        [call.other EXCEPT !.downloads = @ \cup {call.fileId}]]
  /\ SetInit(k, [call EXCEPT !.pc = "receivers", !.todo = Tail(@),
                             !.accepted = @ \cup {o}])
  /\ UNCHANGED <<evars, useRedis, nodeOf, fileUploads, redisUploads,
                 shareSessions, reqs, msgRoute, recvLog, retryLog, failLog,
                 ackProcessed, svars, fvars, rvars, nonivars>>

\* lines 362-392: the share is read again; with other participants and no
\* accepted receiver the handler throws 'All receivers are busy', else it
\* emits upload-init-response{fileId} and routes file-transfer-started
UploadInitRespond(k) ==
  LET call == initCalls[k]
      c == call.clientId
      n == nodeOf[c]
      cs == clientSessions[c]
      crowded == /\ cs.present /\ cs.shareId # None
                 /\ shareSessions[cs.shareId].present
                 /\ Len(shareSessions[cs.shareId].clients) > 1
      pub == {o \in call.accepted : RouteKind(n, o) = "publish"}
  IN
  /\ call.pc = "receivers" /\ call.todo = <<>>
  /\ IF crowded /\ call.accepted = {}
       THEN /\ SetInit(k, [call EXCEPT !.pc = "done", !.result = "UPLOAD_FAILED"])
            /\ UNCHANGED msgRoute
       ELSE /\ SetInit(k, [call EXCEPT !.pc = "done", !.result = "success"])
            /\ msgRoute' = IF pub = {} THEN msgRoute
                           ELSE Append(msgRoute,
                                  RouteMsg(CHOOSE o \in pub : TRUE,
                                           "file-transfer-started",
                                           call.fileId, 0))
  /\ UNCHANGED <<evars, useRedis, nodeOf, fileUploads, redisUploads,
                 clientSessions, shareSessions, reqs, recvLog, retryLog,
                 failLog, ackProcessed, svars, fvars, rvars, nonivars>>

\* ==================================================== cancel-download
\* cancel-download{fileId, clientId} (lines 657-688).  The handler adds the
\* client to the cancelled set of the file, which no handler reads, then
\* takes the file out of the client's downloads by reading, filtering and
\* writing the ClientSession, and emits download-cancelled.  `after` is
\* the number of upload-chunk requests that had arrived when the handler
\* was through.
CancelCall(c, f, pc, session, after) ==
  [clientId |-> c, fileId |-> f, pc |-> pc, session |-> session,
   after |-> after]

DropDownload(session, f) == [session EXCEPT !.downloads = @ \ {f}]

\* addCancelledDownload; with the embedded backend the whole handler.
\* The client names a fileId it was told in file-transfer-started.
CancelDownloadStart(c, f) ==
  LET cs == clientSessions[c] IN
  /\ Len(cancelCalls) < MaxCancels
  /\ getUploadState(nodeOf[c], f).status # "absent"
  /\ IF useRedis
       THEN /\ cancelCalls' = Append(cancelCalls, CancelCall(c, f, "load", cs, 0))
            /\ UNCHANGED clientSessions
       ELSE /\ cancelCalls' = Append(cancelCalls,
                                     CancelCall(c, f, "done", cs, Len(reqs)))
            /\ clientSessions' = [clientSessions EXCEPT ![c] =
                  IF cs.present THEN DropDownload(cs, f) ELSE cs]
  /\ UNCHANGED <<evars, useRedis, nodeOf, fileUploads, redisUploads,
                 shareSessions, reqs, msgRoute, recvLog, retryLog, failLog,
                 ackProcessed, svars, fvars, rvars, noncvars>>

\* getClientSession
CancelDownloadLoad(k) ==
  LET call == cancelCalls[k]
      cs == clientSessions[call.clientId]
  IN
  /\ call.pc = "load"
  /\ cancelCalls' = [cancelCalls EXCEPT ![k] =
        IF cs.present /\ call.fileId \in cs.downloads
          THEN [call EXCEPT !.pc = "store", !.session = cs]
          ELSE [call EXCEPT !.pc = "done", !.after = Len(reqs)]]
  /\ UNCHANGED <<evars, uvars, svars, fvars, rvars, noncvars>>

\* setClientSession of the filtered session, download-cancelled
CancelDownloadStore(k) ==
  LET call == cancelCalls[k] IN
  /\ call.pc = "store"
  /\ clientSessions' = [clientSessions EXCEPT ![call.clientId] =
        DropDownload(call.session, call.fileId)]
  /\ cancelCalls' = [cancelCalls EXCEPT ![k].pc = "done",
                                        ![k].after = Len(reqs)]
  /\ UNCHANGED <<evars, useRedis, nodeOf, fileUploads, redisUploads,
                 shareSessions, reqs, msgRoute, recvLog, retryLog, failLog,
                 ackProcessed, svars, fvars, rvars, noncvars>>

\* ============================================================ shutdown
\* the Session rows of node n
RowsOf(n) == {r \in UNION {dbSessions[c] : c \in Clients} : r.nodeId = n}

\* the SIGTERM / SIGINT handler of server.ts (175-195).  In cluster mode
\* it awaits ClusterManager.shutdown (cluster.service.ts 519-543), whose
\* NodeService.deregister (node.service.ts 156-188) first marks the
\* node's active sessions inactive (updateMany), then the node; otherwise
\* it only closes the Redis connection and the HTTP server.
Shutdown(n) ==
  /\ shutdownPc[n] = "up"
  /\ IF useCluster
       THEN /\ dbInactive' = dbInactive \cup RowsOf(n)
            /\ shutdownPc' = [shutdownPc EXCEPT ![n] = "deregister"]
       ELSE /\ shutdownPc' = [shutdownPc EXCEPT ![n] = "down"]
            /\ UNCHANGED dbInactive
  /\ UNCHANGED <<evars, uvars, svars, fvars, rvars, nonnvars,
                 useCluster, nodeStatus>>

\* node.service.ts 176-180: prisma.node.update status = 'inactive'
DeregisterNode(n) ==
  /\ shutdownPc[n] = "deregister"
  /\ nodeStatus' = [nodeStatus EXCEPT ![n] = "inactive"]
  /\ shutdownPc' = [shutdownPc EXCEPT ![n] = "down"]
  /\ UNCHANGED <<evars, uvars, svars, fvars, rvars, nonnvars,
                 useCluster, dbInactive>>

\* ======================================================== the sweeper
\* the node stops sending heartbeats (node.service.ts 80-96) and 30 s pass
HeartbeatLapses(n) ==
  /\ ~hbStale[n]
  /\ cleanup[n].pc = "idle"
  /\ hbStale' = [hbStale EXCEPT ![n] = TRUE]
  /\ UNCHANGED <<nonsweepvars, nvars, cleanup>>

\* node.updateMany({lastHeartbeat < threshold, status: 'active'},
\* {status: 'dead'}), in cleanupDeadNodes (node.service.ts 118-124) and in
\* PrismaService.cleanup (prisma.service.ts 100-107)
MarkDead(status) ==
  [m \in Nodes |-> IF hbStale[m] /\ status[m] = "active" THEN "dead"
                   ELSE status[m]]

SetCleanup(n, pc, dead) ==
  cleanup' = [cleanup EXCEPT ![n] = [pc |-> pc, deadNodeIds |-> dead]]

\* the cleanup interval of node n fires (node.service.ts 101-108);
\* cleanupDeadNodes marks the stale nodes and goes on only if
\* result.count > 0 (lines 113-127)
CleanupDeadNodes(n) ==
  /\ useCluster /\ ~hbStale[n]
  /\ cleanup[n].pc = "idle"
  /\ nodeStatus' = MarkDead(nodeStatus)
  /\ SetCleanup(n, IF nodeStatus' # nodeStatus THEN "find" ELSE "prisma", {})
  /\ UNCHANGED <<nonsweepvars, hbStale, useCluster, dbInactive, shutdownPc>>

\* node.findMany({status: 'dead'}) (lines 129-135)
FindDeadNodes(n) ==
  /\ cleanup[n].pc = "find"
  /\ SetCleanup(n, "sessions", {m \in Nodes : nodeStatus[m] = "dead"})
  /\ UNCHANGED <<nonsweepvars, hbStale, nvars>>

\* session.updateMany({nodeId in deadNodeIds, active: true},
\* {active: false}) (lines 137-145)
DeactivateSessions(n) ==
  /\ cleanup[n].pc = "sessions"
  /\ dbInactive' = dbInactive \cup
                     UNION {RowsOf(m) : m \in cleanup[n].deadNodeIds}
  /\ SetCleanup(n, "prisma", {})
  /\ UNCHANGED <<nonsweepvars, hbStale, useCluster, nodeStatus, shutdownPc>>

\* PrismaService.cleanup (prisma.service.ts 83-114): the sessions inactive
\* for 24 hours are deleted, none of the sessions here being that old, and
\* the stale nodes are marked dead; the cycle is over
PrismaCleanup(n) ==
  /\ cleanup[n].pc = "prisma"
  /\ nodeStatus' = MarkDead(nodeStatus)
  /\ SetCleanup(n, "idle", {})
  /\ UNCHANGED <<nonsweepvars, hbStale, useCluster, dbInactive, shutdownPc>>

\* the clients that send heartbeats
HbClients == {Receiver}

HbCall(c, pc, read, answer, resetIn) ==
  [clientId |-> c, pc |-> pc, read |-> read, session |-> clientSessions[c],
   answer |-> answer, resetIn |-> resetIn]

\* one more call was allowed: the window opens with the first of them
WinAllow(w) ==
  IF w.left = 0 THEN [left |-> WindowTicks, allowed |-> 1]
  ELSE [w EXCEPT !.allowed = @ + 1]

\* multi.incr(key), with multi.expire(key, window) when the count read
\* before was 0 (redis.service.ts 194-199); INCR creates a missing key
\* without expiry
IncrKey(c, read) ==
  /\ rlCount' = [rlCount EXCEPT ![c] = @ + 1]
  /\ rlTtl' = [rlTtl EXCEPT ![c] =
                 IF read = 0 THEN WindowTicks
                 ELSE IF rlCount[c] = 0 THEN -1 ELSE @]

\* heartbeat of client c arrives (socket.handler.ts 195-216).  Embedded
\* backend: StorageRepository.checkRateLimit (storage.repository.ts 140-156)
\* allows every call and the handler runs through.  Distributed backend:
\* RedisService.checkRateLimit (173-207) reads the counter; at or above
\* the limit it reads the TTL and the handler emits rate-limited.
HeartbeatStart(c) ==
  /\ Len(hbCalls) < MaxCalls
  /\ IF ~useRedis
       THEN /\ hbCalls' = Append(hbCalls,
                  HbCall(c, "done", 0,
                         IF clientSessions[c].present THEN "heartbeat-ack"
                         ELSE "none", WindowTicks))
            /\ rlWin' = [rlWin EXCEPT ![c] = WinAllow(@)]
     ELSE IF rlCount[c] >= RateMax
       THEN /\ hbCalls' = Append(hbCalls,
                  HbCall(c, "done", rlCount[c], "rate-limited", rlTtl[c]))
            /\ UNCHANGED rlWin
     ELSE /\ hbCalls' = Append(hbCalls,
                  HbCall(c, "incr", rlCount[c], "pending", WindowTicks))
          /\ UNCHANGED rlWin
  /\ UNCHANGED <<evars, uvars, svars, fvars, rvars, nonlvars, rlCount, rlTtl>>

\* the MULTI of an allowed call
HeartbeatIncr(k) ==
  LET c == hbCalls[k].clientId IN
  /\ hbCalls[k].pc = "incr"
  /\ IncrKey(c, hbCalls[k].read)
  /\ rlWin' = [rlWin EXCEPT ![c] = WinAllow(@)]
  /\ hbCalls' = [hbCalls EXCEPT ![k].pc = "load"]
  /\ UNCHANGED <<evars, uvars, svars, fvars, rvars, nonlvars>>

\* getClientSession of the handler
HeartbeatLoad(k) ==
  LET c == hbCalls[k].clientId IN
  /\ hbCalls[k].pc = "load"
  /\ hbCalls' = [hbCalls EXCEPT
        ![k].pc = IF clientSessions[c].present THEN "store" ELSE "done",
        ![k].answer = IF clientSessions[c].present THEN "pending" ELSE "none",
        ![k].session = clientSessions[c]]
  /\ UNCHANGED <<evars, uvars, svars, fvars, rvars, nonlvars, rlCount, rlTtl, rlWin>>

\* session.lastHeartbeat = now; setClientSession(session); heartbeat-ack
HeartbeatStore(k) ==
  LET c == hbCalls[k].clientId IN
  /\ hbCalls[k].pc = "store"
  /\ clientSessions' = [clientSessions EXCEPT ![c] = hbCalls[k].session]
  /\ hbCalls' = [hbCalls EXCEPT ![k].pc = "done", ![k].answer = "heartbeat-ack"]
  /\ UNCHANGED <<evars, useRedis, nodeOf, fileUploads, redisUploads,
                 shareSessions, reqs, msgRoute, recvLog, retryLog, failLog,
                 ackProcessed, svars, fvars, rvars, nonlvars, rlCount, rlTtl, rlWin>>

\* one tick passes: a key with an expiry comes closer to it and is deleted
\* when it is reached; so does the window
RateTick ==
  /\ rlTtl' = [c \in Clients |-> IF rlTtl[c] > 0 THEN rlTtl[c] - 1 ELSE rlTtl[c]]
  /\ rlCount' = [c \in Clients |-> IF rlTtl[c] = 1 THEN 0 ELSE rlCount[c]]
  /\ rlWin' = [c \in Clients |->
        IF rlWin[c].left > 1 THEN [rlWin[c] EXCEPT !.left = @ - 1]
        ELSE [left |-> 0, allowed |-> 0]]
  /\ \E c \in Clients : rlWin[c].left > 0 \/ rlTtl[c] > 0
  /\ UNCHANGED <<evars, uvars, svars, fvars, rvars, nonlvars, hbCalls>>

\* ======================================================= specifications
ElectionIdle ==
  /\ lockHolder = None
  /\ lockTtl = 0
  /\ isMaster = [n \in Nodes |-> FALSE]
  /\ epc = [n \in Nodes |-> "idle"]
  /\ role = [n \in Nodes |-> "worker"]
  /\ roleEvent = [n \in Nodes |-> None]
  /\ roleCount = [n \in Nodes |-> 0]
  /\ etime = 0

\* every node running, no tick pending
NoFailure ==
  /\ alive = [n \in Nodes |-> TRUE]
  /\ timer = [n \in Nodes |-> 0]
  /\ failAge = -1

\* no heartbeat yet, no rate limit key
NoLimiter ==
  /\ rlCount = [c \in Clients |-> 0]
  /\ rlTtl = [c \in Clients |-> 0]
  /\ rlWin = [c \in Clients |-> [left |-> 0, allowed |-> 0]]
  /\ hbCalls = <<>>

NoMisc ==
  /\ NoLimiter
  /\ initCalls = <<>>
  /\ cancelCalls = <<>>
  /\ uploadComplete = [f \in FileIds |-> 0]
  /\ filesSent = 0
  /\ nodeStatus = [n \in Nodes |-> "active"]
  /\ dbInactive = {}
  /\ shutdownPc = [n \in Nodes |-> "up"]
  /\ progressLog = <<>>
  /\ ackLog = {}
  /\ cbLog = [k \in 1..MaxRequests |-> <<>>]
  /\ hbStale = [n \in Nodes |-> FALSE]
  /\ cleanup = [n \in Nodes |-> [pc |-> "idle", deadNodeIds |-> {}]]

\* redis.config.ts 94-103: clustering requires Redis; the deployments of
\* the specifications below switch both on or both off
ClusterWithRedis == useCluster = useRedis

\* no socket opened, nothing published
NoRouting ==
  /\ sockets = [n \in Nodes |-> {}]
  /\ sockGen = [c \in Clients |-> 0]
  /\ sessSocket = [c \in Clients |-> NoSocket]
  /\ dbSessions = [c \in Clients |-> {}]
  /\ localClients = [n \in Nodes |-> [c \in Clients |-> NoSocket]]
  /\ routeInbox = [n \in Nodes |-> <<>>]
  /\ published = <<>>
  /\ emitLog = <<>>
  /\ routeSeq = 0

\* two registered clients in one share, no upload yet
TransferStart(redis, receiverNode) ==
  /\ useRedis = redis
  /\ nodeOf = [c \in Clients |-> IF c = Receiver THEN receiverNode ELSE "n1"]
  /\ fileUploads = [n \in Nodes |-> [f \in FileIds |-> NoUpload]]
  /\ redisUploads = [f \in FileIds |-> NoUpload]
  /\ clientSessions = [c \in Clients |->
        [present |-> TRUE,
         nodeId |-> IF c = Receiver THEN receiverNode ELSE "n1",
         connected |-> TRUE, downloads |-> {},
         shareId |-> IF c \in {Sender, Receiver} THEN TheShare ELSE None]]
  /\ shareSessions = [s \in ShareIds |->
        IF s = TheShare
          THEN [present |-> TRUE, clients |-> <<Sender, Receiver>>,
                status |-> "active", lastActivity |-> 0]
          ELSE NoShare]
  /\ httpReqs = <<>>
  /\ shareEvents = {}
  /\ reqs = <<>>
  /\ msgRoute = <<>>
  /\ recvLog = [c \in Clients |-> <<>>]
  /\ retryLog = <<>>
  /\ failLog = {}
  /\ ackProcessed = {}

\* standalone with the embedded backend, or a cluster over the distributed
\* backend with the receiver on the sender's node or on the other node
Init ==
  /\ ElectionIdle
  /\ NoFailure
  /\ NoRouting
  /\ NoMisc
  /\ \/ TransferStart(FALSE, "n1")
     \/ \E rn \in Nodes : TransferStart(TRUE, rn)
  /\ ClusterWithRedis

Next ==
  \/ UploadInit(TheFile) /\ UNCHANGED xvars
  \/ (\E i \in 0..TotalChunks : EmitChunk(i)) /\ UNCHANGED xvars
  \/ (\E k \in DOMAIN reqs : Ingest(k)) /\ UNCHANGED xvars
  \/ /\ \E k \in DOMAIN reqs :
          Relay(k) /\ UploadCompleteEffects(k, nodeOf[Sender], TheFile)
     /\ UNCHANGED <<svars, fvars, rvars, nondvars>>
  \/ /\ \E k \in DOMAIN reqs :
          Finish(k) /\ UploadCompleteEffects(k, nodeOf[Sender], TheFile)
     /\ UNCHANGED <<svars, fvars, rvars, nondvars>>
  \/ Deliver /\ UNCHANGED xvars
  \/ (\E c \in Clients, i \in 0..TotalChunks : ChunkAcknowledged(c, i))
       /\ UNCHANGED xvars
  \/ (\E n \in Nodes : Scan(n)) /\ UNCHANGED xvars
  \/ Tick /\ UNCHANGED xvars

Spec == Init /\ [][Next]_vars

InitElection ==
  /\ ElectionIdle
  /\ NoFailure
  /\ NoRouting
  /\ NoMisc
  /\ TransferStart(TRUE, "n2")
  /\ ClusterWithRedis

NextElection ==
  \/ (\E n \in Nodes : ElectSet(n)) /\ UNCHANGED xvars
  \/ (\E n \in Nodes : ElectGet(n)) /\ UNCHANGED xvars
  \/ (\E n \in Nodes : ElectExpire(n)) /\ UNCHANGED xvars
  \/ ElectionTimePasses /\ UNCHANGED xvars

SpecElection == InitElection /\ [][NextElection]_vars

\* registered clients, no share yet; embedded or distributed backend
ShareStart(redis) ==
  /\ useRedis = redis
  /\ nodeOf = [c \in Clients |-> "n1"]
  /\ fileUploads = [n \in Nodes |-> [f \in FileIds |-> NoUpload]]
  /\ redisUploads = [f \in FileIds |-> NoUpload]
  /\ clientSessions = [c \in Clients |->
        [present |-> TRUE, nodeId |-> "n1", connected |-> TRUE,
         downloads |-> {}, shareId |-> None]]
  /\ shareSessions = [s \in ShareIds |-> NoShare]
  /\ reqs = <<>>
  /\ msgRoute = <<>>
  /\ recvLog = [c \in Clients |-> <<>>]
  /\ retryLog = <<>>
  /\ failLog = {}
  /\ ackProcessed = {}
  /\ httpReqs = <<>>
  /\ shareEvents = {}

InitShare ==
  /\ ElectionIdle
  /\ NoFailure
  /\ NoRouting
  /\ NoMisc
  /\ \E redis \in BOOLEAN : ShareStart(redis)
  /\ ClusterWithRedis

NextShare ==
  \/ (\E c \in Clients, s \in ShareIds : CreateShareLoad(c, s))
       /\ UNCHANGED <<fvars, mvars, rvars>>
  \/ (\E k \in DOMAIN httpReqs : CreateShareStore(k))
       /\ UNCHANGED <<fvars, mvars, rvars>>
  \/ (\E c \in Clients, s \in ShareIds : JoinShareLoad(c, s))
       /\ UNCHANGED <<fvars, mvars, rvars>>
  \/ (\E k \in DOMAIN httpReqs : JoinShareStore(k))
       /\ UNCHANGED <<fvars, mvars, rvars>>
  \/ (\E c \in Clients : Disconnect(c)) /\ UNCHANGED <<fvars, mvars, rvars>>

SpecShare == InitShare /\ [][NextShare]_vars

\* the upload states a node can hold for a file of TotalChunks chunks:
\* any chunks ingested, pendingAcks not set or a Map with entries for
\* distinct chunks, chunkChecksums not set or a Map likewise
DistinctChunks(q) == \A x, y \in DOMAIN q : q[x].chunkIndex = q[y].chunkIndex => x = y

SeqsOver(E) == {q \in UNION {[1..k -> E] : k \in 0..TotalChunks} : DistinctChunks(q)}

CodecInputs ==
  LET Acks == [chunkIndex : 0..(TotalChunks - 1), age : {0},
               retries : 0..1, since : {0}]
      Sums == [chunkIndex : 0..(TotalChunks - 1), checksum : {"a", "b"}]
      Pending == {<<"undef", <<>>>>} \cup {<<"map", q>> : q \in SeqsOver(Acks)}
      Checks == {<<"undef", <<>>>>} \cup {<<"map", q>> : q \in SeqsOver(Sums)}
  IN {[NewUpload(Sender) EXCEPT !.uploadedChunks = uc,
                                !.pendingKind = pa[1], !.pendingAcks = pa[2],
                                !.checksKind = ck[1], !.chunkChecksums = ck[2]] :
        uc \in SUBSET (0..(TotalChunks - 1)), pa \in Pending, ck \in Checks}

\* n1 holds an upload state in its process, nothing is stored yet, n2 has
\* no copy
InitCodec ==
  /\ ElectionIdle
  /\ NoFailure
  /\ NoRouting
  /\ NoMisc
  /\ useRedis = TRUE
  /\ nodeOf = [c \in Clients |-> "n1"]
  /\ \E u \in CodecInputs :
        fileUploads = [n \in Nodes |-> [f \in FileIds |->
                         IF n = "n1" THEN u ELSE NoUpload]]
  /\ redisUploads = [f \in FileIds |-> NoUpload]
  /\ clientSessions = [c \in Clients |->
        [present |-> TRUE, nodeId |-> "n1", connected |-> TRUE,
         downloads |-> {}, shareId |-> None]]
  /\ shareSessions = [s \in ShareIds |-> NoShare]
  /\ reqs = <<>>
  /\ msgRoute = <<>>
  /\ recvLog = [c \in Clients |-> <<>>]
  /\ retryLog = <<>>
  /\ failLog = {}
  /\ ackProcessed = {}
  /\ httpReqs = <<>>
  /\ shareEvents = {}
  /\ ClusterWithRedis

\* storageRepository.setUploadState(f, upload) on the node holding it
CodecStore(n, f) ==
  /\ fileUploads[n][f].status # "absent"
  /\ redisUploads[f].status = "absent"
  /\ setUploadState(n, f, fileUploads[n][f])
  /\ UNCHANGED <<evars, useRedis, nodeOf, clientSessions, shareSessions, reqs,
                 msgRoute, recvLog, retryLog, failLog, ackProcessed, xvars>>

\* storageRepository.getUploadState(f) on a node without a copy
CodecLoad(n, f) ==
  /\ fileUploads[n][f].status = "absent"
  /\ redisUploads[f].status # "absent"
  /\ CacheOnly(n, f, getUploadState(n, f))
  /\ UNCHANGED <<evars, useRedis, nodeOf, clientSessions, shareSessions, reqs,
                 msgRoute, recvLog, retryLog, failLog, ackProcessed, xvars>>

NextCodec ==
  \/ \E n \in Nodes, f \in FileIds : CodecStore(n, f)
  \/ \E n \in Nodes, f \in FileIds : CodecLoad(n, f)

SpecCodec == InitCodec /\ [][NextCodec]_vars

\* a cluster over the distributed backend, no client connected yet
RouteStart ==
  /\ useRedis = TRUE
  /\ nodeOf = [c \in Clients |-> "n1"]
  /\ fileUploads = [n \in Nodes |-> [f \in FileIds |-> NoUpload]]
  /\ redisUploads = [f \in FileIds |-> NoUpload]
  /\ clientSessions = [c \in Clients |->
        [present |-> FALSE, nodeId |-> "n1", connected |-> FALSE,
         downloads |-> {}, shareId |-> None]]
  /\ shareSessions = [s \in ShareIds |-> NoShare]
  /\ reqs = <<>>
  /\ msgRoute = <<>>
  /\ recvLog = [c \in Clients |-> <<>>]
  /\ retryLog = <<>>
  /\ failLog = {}
  /\ ackProcessed = {}
  /\ httpReqs = <<>>
  /\ shareEvents = {}

InitRoute ==
  /\ ElectionIdle
  /\ NoFailure
  /\ NoRouting
  /\ NoMisc
  /\ RouteStart
  /\ ClusterWithRedis

NextRoute ==
  \/ \E c \in RouteClients, n \in Nodes : RegisterClient(c, n)
  \/ \E n \in Nodes : \E sid \in sockets[n] : SocketCloses(n, sid)
  \/ \E c \in RouteTargets : SessionExpires(c)
  \/ \E n \in Nodes, c \in RouteTargets : RouteTo(n, c)
  \/ \E n \in Nodes : RouteConsume(n)
  \/ (\E n \in Nodes : ElectSet(n)) /\ UNCHANGED xvars
  \/ (\E n \in Nodes : ElectGet(n)) /\ UNCHANGED xvars
  \/ (\E n \in Nodes : ElectExpire(n)) /\ UNCHANGED xvars

SpecRoute == InitRoute /\ [][NextRoute]_vars

\* two clients in one share over either backend, each with no download
\* or with OtherDownloads open
InitUploadInit ==
  /\ ElectionIdle
  /\ NoFailure
  /\ NoRouting
  /\ NoMisc
  /\ useRedis \in BOOLEAN
  /\ nodeOf = [c \in Clients |-> "n1"]
  /\ fileUploads = [n \in Nodes |-> [f \in FileIds |-> NoUpload]]
  /\ redisUploads = [f \in FileIds |-> NoUpload]
  /\ \E dl \in [{Sender, Receiver} -> {{}, OtherDownloads}] :
        clientSessions = [c \in Clients |->
          [present |-> TRUE, nodeId |-> "n1", connected |-> TRUE,
           downloads |-> IF c \in DOMAIN dl THEN dl[c] ELSE {},
           shareId |-> IF c \in {Sender, Receiver} THEN TheShare ELSE None]]
  /\ shareSessions = [s \in ShareIds |->
        IF s = TheShare
          THEN [present |-> TRUE, clients |-> <<Sender, Receiver>>,
                status |-> "active", lastActivity |-> 0]
          ELSE NoShare]
  /\ httpReqs = <<>>
  /\ shareEvents = {}
  /\ reqs = <<>>
  /\ msgRoute = <<>>
  /\ recvLog = [c \in Clients |-> <<>>]
  /\ retryLog = <<>>
  /\ failLog = {}
  /\ ackProcessed = {}
  /\ ClusterWithRedis

NextUploadInit ==
  \/ \E c \in {Sender, Receiver}, f \in FileIds, big \in BOOLEAN :
        UploadInitStart(c, f, big)
  \/ \E k \in DOMAIN initCalls : UploadInitValidate(k)
  \/ \E k \in DOMAIN initCalls : UploadInitShare(k)
  \/ \E k \in DOMAIN initCalls : UploadInitLoadReceiver(k)
  \/ \E k \in DOMAIN initCalls : UploadInitPushReceiver(k)
  \/ \E k \in DOMAIN initCalls : UploadInitRespond(k)

SpecUploadInit == InitUploadInit /\ [][NextUploadInit]_vars

\* a transfer of TotalChunks requests, with the receiver cancelling its
\* download and sending one heartbeat
NextCancel ==
  \/ UploadInit(TheFile) /\ UNCHANGED xvars
  \/ /\ Len(reqs) < TotalChunks
     /\ \E i \in 0..(TotalChunks - 1) : EmitChunk(i)
     /\ UNCHANGED xvars
  \/ (\E k \in DOMAIN reqs : Ingest(k)) /\ UNCHANGED xvars
  \/ /\ \E k \in DOMAIN reqs :
          Relay(k) /\ UploadCompleteEffects(k, nodeOf[Sender], TheFile)
     /\ UNCHANGED <<svars, fvars, rvars, nondvars>>
  \/ /\ \E k \in DOMAIN reqs :
          Finish(k) /\ UploadCompleteEffects(k, nodeOf[Sender], TheFile)
     /\ UNCHANGED <<svars, fvars, rvars, nondvars>>
  \/ Deliver /\ UNCHANGED xvars
  \/ CancelDownloadStart(Receiver, TheFile)
  \/ \E k \in DOMAIN cancelCalls : CancelDownloadLoad(k)
  \/ \E k \in DOMAIN cancelCalls : CancelDownloadStore(k)
  \/ hbCalls = <<>> /\ \E c \in HbClients : HeartbeatStart(c)
  \/ \E k \in DOMAIN hbCalls : HeartbeatIncr(k)
  \/ \E k \in DOMAIN hbCalls : HeartbeatLoad(k)
  \/ \E k \in DOMAIN hbCalls : HeartbeatStore(k)

SpecCancel == Init /\ [][NextCancel]_vars

\* registered clients come and go while nodes are shut down, in cluster
\* mode and in standalone mode
InitShutdown ==
  /\ ElectionIdle
  /\ NoFailure
  /\ NoRouting
  /\ NoMisc
  /\ RouteStart
  /\ useCluster \in BOOLEAN

NextShutdown ==
  \/ \E c \in RouteClients, n \in Nodes :
        shutdownPc[n] # "down" /\ RegisterClient(c, n)
  \/ \E n \in Nodes : \E sid \in sockets[n] : SocketCloses(n, sid)
  \/ \E n \in Nodes : Shutdown(n)
  \/ \E n \in Nodes : DeregisterNode(n)

SpecShutdown == InitShutdown /\ [][NextShutdown]_vars

\* standalone, the upload of TheFile announced with 1..MaxTotal chunks
InitProgress ==
  /\ ElectionIdle
  /\ NoFailure
  /\ NoRouting
  /\ NoMisc
  /\ useRedis = FALSE
  /\ nodeOf = [c \in Clients |-> "n1"]
  /\ \E t \in 1..MaxTotal :
        fileUploads = [n \in Nodes |-> [f \in FileIds |->
          IF n = "n1" /\ f = TheFile
            THEN [NewUpload(Sender) EXCEPT !.totalChunks = t]
            ELSE NoUpload]]
  /\ redisUploads = [f \in FileIds |-> NoUpload]
  /\ clientSessions = [c \in Clients |->
        [present |-> TRUE, nodeId |-> "n1", connected |-> TRUE,
         downloads |-> IF c = Receiver THEN {TheFile} ELSE {},
         shareId |-> IF c \in {Sender, Receiver} THEN TheShare ELSE None]]
  /\ shareSessions = [s \in ShareIds |->
        IF s = TheShare
          THEN [present |-> TRUE, clients |-> <<Sender, Receiver>>,
                status |-> "active", lastActivity |-> 0]
          ELSE NoShare]
  /\ httpReqs = <<>>
  /\ shareEvents = {}
  /\ reqs = <<>>
  /\ msgRoute = <<>>
  /\ recvLog = [c \in Clients |-> <<>>]
  /\ retryLog = <<>>
  /\ failLog = {}
  /\ ackProcessed = {}
  /\ ClusterWithRedis

NextProgress ==
  \/ (\E i \in 0..(MaxTotal - 1) : EmitChunk(i)) /\ UNCHANGED xvars
  \/ /\ \E k \in DOMAIN reqs :
          Ingest(k) /\ ChunkUploaded(k, nodeOf[Sender], TheFile)
     /\ UNCHANGED <<svars, fvars, rvars, nonzvars, ackLog, cbLog, sweepvars>>
  \/ /\ \E k \in DOMAIN reqs :
          Relay(k) /\ UploadCompleteEffects(k, nodeOf[Sender], TheFile)
     /\ UNCHANGED <<svars, fvars, rvars, nondvars>>

SpecProgress == InitProgress /\ [][NextProgress]_vars

\* a transfer with the clients of the repository: the sender's and the
\* receiver's frontend listen to chunk-acknowledged and never emit it
\* (useFileTransfer.ts 127-137)
NextAck ==
  \/ UploadInit(TheFile) /\ UNCHANGED xvars
  \/ (\E i \in 0..(TotalChunks - 1) : EmitChunk(i)) /\ UNCHANGED xvars
  \/ (\E k \in DOMAIN reqs : Ingest(k)) /\ UNCHANGED xvars
  \/ /\ \E k \in DOMAIN reqs :
          /\ Relay(k)
          /\ UploadCompleteEffects(k, nodeOf[Sender], TheFile)
          /\ SynthesizedAck(k, TheFile)
     /\ UNCHANGED <<svars, fvars, rvars, lvars, ivars, cvars, nvars,
                    progressLog, cbLog, sweepvars>>
  \/ /\ \E k \in DOMAIN reqs :
          Finish(k) /\ UploadCompleteEffects(k, nodeOf[Sender], TheFile)
     /\ UNCHANGED <<svars, fvars, rvars, nondvars>>
  \/ Deliver /\ UNCHANGED xvars
  \/ (\E n \in Nodes : Scan(n)) /\ UNCHANGED xvars
  \/ Tick /\ UNCHANGED xvars

SpecAck == Init /\ [][NextAck]_vars

\* upload-init requests while the receiver sends one heartbeat
NextDownloads ==
  \/ NextUploadInit
  \/ hbCalls = <<>> /\ \E c \in HbClients : HeartbeatStart(c)
  \/ \E k \in DOMAIN hbCalls : HeartbeatIncr(k)
  \/ \E k \in DOMAIN hbCalls : HeartbeatLoad(k)
  \/ \E k \in DOMAIN hbCalls : HeartbeatStore(k)

SpecDownloads == InitUploadInit /\ [][NextDownloads]_vars

\* clients register, create and join one share and lose their sockets,
\* in any order
NextRegister ==
  \/ \E c \in RouteClients, n \in Nodes : RegisterClient(c, n)
  \/ \E n \in Nodes : \E sid \in sockets[n] : SocketCloses(n, sid)
  \/ (\E c \in RouteClients : CreateShareLoad(c, TheShare))
       /\ UNCHANGED <<fvars, mvars, rvars>>
  \/ (\E k \in DOMAIN httpReqs : CreateShareStore(k))
       /\ UNCHANGED <<fvars, mvars, rvars>>
  \/ (\E c \in RouteClients : JoinShareLoad(c, TheShare))
       /\ UNCHANGED <<fvars, mvars, rvars>>
  \/ (\E k \in DOMAIN httpReqs : JoinShareStore(k))
       /\ UNCHANGED <<fvars, mvars, rvars>>

\* clients create and join one share while their socket is connected and
\* disconnect when their own requests have been answered
Connected(c) == clientSessions[c].present /\ clientSessions[c].connected

Answered(c) ==
  \A k \in DOMAIN httpReqs :
    httpReqs[k].clientId = c => httpReqs[k].pc = "done"

NextLeave ==
  \/ (\E c \in Clients : Connected(c) /\ CreateShareLoad(c, TheShare))
       /\ UNCHANGED <<fvars, mvars, rvars>>
  \/ (\E k \in DOMAIN httpReqs : CreateShareStore(k))
       /\ UNCHANGED <<fvars, mvars, rvars>>
  \/ (\E c \in Clients : Connected(c) /\ JoinShareLoad(c, TheShare))
       /\ UNCHANGED <<fvars, mvars, rvars>>
  \/ (\E k \in DOMAIN httpReqs : JoinShareStore(k))
       /\ UNCHANGED <<fvars, mvars, rvars>>
  \/ (\E c \in Clients : Answered(c) /\ Disconnect(c))
       /\ UNCHANGED <<fvars, mvars, rvars>>

SpecLeave == InitShare /\ [][NextLeave]_vars

\* clients register with the nodes that run, a node stops, the others
\* run their cleanup cycles
NextSweep ==
  \/ \E c \in RouteClients, n \in Nodes : ~hbStale[n] /\ RegisterClient(c, n)
  \/ \E n \in Nodes : HeartbeatLapses(n)
  \/ \E n \in Nodes : CleanupDeadNodes(n)
  \/ \E n \in Nodes : FindDeadNodes(n)
  \/ \E n \in Nodes : DeactivateSessions(n)
  \/ \E n \in Nodes : PrismaCleanup(n)

SpecSweep == InitRoute /\ [][NextSweep]_vars

\* a transfer with the responses to the sender's requests; the sender may
\* reconnect through the other node
NextCallback ==
  \/ UploadInit(TheFile) /\ UNCHANGED xvars
  \/ (\E i \in 0..TotalChunks : EmitChunk(i)) /\ UNCHANGED xvars
  \/ /\ \E k \in DOMAIN reqs :
          Ingest(k) /\ Callback(k, nodeOf[Sender], TheFile)
     /\ UNCHANGED <<svars, fvars, rvars, nonzvars, progressLog, ackLog,
                    sweepvars>>
  \/ /\ \E k \in DOMAIN reqs :
          /\ Relay(k)
          /\ UploadCompleteEffects(k, nodeOf[Sender], TheFile)
          /\ Callback(k, nodeOf[Sender], TheFile)
     /\ UNCHANGED <<svars, fvars, rvars, lvars, ivars, cvars, nvars,
                    progressLog, ackLog, sweepvars>>
  \/ /\ \E k \in DOMAIN reqs :
          /\ Finish(k)
          /\ UploadCompleteEffects(k, nodeOf[Sender], TheFile)
          /\ Callback(k, nodeOf[Sender], TheFile)
     /\ UNCHANGED <<svars, fvars, rvars, lvars, ivars, cvars, nvars,
                    progressLog, ackLog, sweepvars>>
  \/ Deliver /\ UNCHANGED xvars
  \/ (\E c \in Clients, i \in 0..TotalChunks : ChunkAcknowledged(c, i))
       /\ UNCHANGED xvars
  \/ (\E n \in Nodes : SenderReconnects(n)) /\ UNCHANGED xvars

SpecCallback == Init /\ [][NextCallback]_vars

SpecRegister == InitRoute /\ [][NextRegister]_vars

NextRate ==
  \/ \E c \in HbClients : HeartbeatStart(c)
  \/ \E k \in DOMAIN hbCalls : HeartbeatIncr(k)
  \/ \E k \in DOMAIN hbCalls : HeartbeatLoad(k)
  \/ \E k \in DOMAIN hbCalls : HeartbeatStore(k)
  \/ RateTick

SpecRate == InitShare /\ [][NextRate]_vars

NextPayload ==
  \/ \E n \in Nodes, pl \in Payloads : PayloadPublish(n, pl)
  \/ \E n \in Nodes : PayloadReceive(n)

SpecPayload == InitRoute /\ [][NextPayload]_vars

\* two nodes whose election loops started any time apart, no failure yet
InitFailover ==
  /\ ElectionIdle
  /\ ShareStart(TRUE)
  /\ alive = [n \in Nodes |-> TRUE]
  /\ timer \in [Nodes -> {0, FailStep}]
  /\ failAge = -1
  /\ NoRouting
  /\ NoMisc
  /\ ClusterWithRedis

NextFailover ==
  \/ \E n \in Nodes : FailoverTick(n)
  \/ (\E n \in Nodes : alive[n] /\ ElectGet(n)) /\ UNCHANGED xvars
  \/ (\E n \in Nodes : alive[n] /\ ElectExpire(n)) /\ UNCHANGED xvars
  \/ \E n \in Nodes : MasterFails(n)
  \/ FailoverTime

SpecFailover == InitFailover /\ [][NextFailover]_vars

\* ============================================================== claims
\* C1: at every instant at most one node has isMaster = true.
AtMostOneMaster == Cardinality({n \in Nodes : isMaster[n]}) <= 1

DuplicateChunkIsIdempotent ==
  [][\A k \in DOMAIN reqs :
       (/\ k \in DOMAIN reqs'
        /\ reqs'[k].pc # reqs[k].pc
        /\ \E j \in 1..(k-1) : /\ reqs[j].chunkIndex = reqs[k].chunkIndex
                               /\ reqs[j].pc = "done"
                               /\ reqs[j].chunkIndex \in Range(recvLog[Receiver]))
       => /\ recvLog' = recvLog
          /\ msgRoute' = msgRoute
          /\ LET u == fileUploads[nodeOf[Sender]][TheFile]
                 v == fileUploads'[nodeOf[Sender]][TheFile]
             IN /\ v.uploadedChunks = u.uploadedChunks
                /\ v.pendingAcks = u.pendingAcks
                /\ v.status = u.status]_vars

\* C4: once the upload's status is failed, no further chunk-received for
\* the file reaches any receiver.
NoRelayAfterFailed ==
  [][fileUploads[nodeOf[Sender]][TheFile].status = "failed"
       => /\ recvLog' = recvLog
          /\ Len(msgRoute') <= Len(msgRoute)]_vars

\* C5: the status of an UploadState changes only from uploading; completed,
\* failed and cancelled are final.
StatusIsFinal ==
  [][\A n \in Nodes, f \in FileIds :
       fileUploads[n][f].status \in {"completed", "failed", "cancelled"}
         => fileUploads'[n][f].status = fileUploads[n][f].status]_vars

\* C6: an upload goes from uploading to completed only in a state where
\* |uploadedChunks| = totalChunks and pendingAcks is empty.
CompletedOnlyWhenAcked ==
  [][\A n \in Nodes, f \in FileIds :
       (fileUploads[n][f].status = "uploading"
          /\ fileUploads'[n][f].status = "completed")
         => /\ Cardinality(fileUploads'[n][f].uploadedChunks)
                 = fileUploads'[n][f].totalChunks
            /\ fileUploads'[n][f].pendingAcks = <<>>]_vars

\* C7: pendingAcks of an upload contains i only if i is in uploadedChunks
\* and the server processed no chunk-acknowledged for i since i was
\* ingested.
PendingOnlyIfUnacknowledged ==
  \A n \in Nodes, f \in FileIds :
    \A i \in PendingChunks(fileUploads[n][f]) :
      /\ i \in fileUploads[n][f].uploadedChunks
      /\ i \notin ackProcessed

\* C8: every element of uploadedChunks lies in [0, totalChunks), so
\* |uploadedChunks| <= totalChunks, for client-supplied chunk indices.
ChunksWithinTotal ==
  \A n \in Nodes, f \in FileIds :
    LET u == fileUploads[n][f] IN
    u.status # "absent"
      => /\ u.uploadedChunks \subseteq 0..(u.totalChunks - 1)
         /\ Cardinality(u.uploadedChunks) <= u.totalChunks

\* C9: when the server handles the receiver's chunk-acknowledged for i, the
\* upload's stored state on the sender's node no longer has i in pendingAcks
\* and its lastAckTime is the time of the acknowledgment, on one node or
\* across nodes.
AckClearsPending ==
  [][\A i \in ackProcessed' \ ackProcessed :
       LET v == fileUploads'[nodeOf[Sender]][TheFile] IN
       v.status # "absent"
         => /\ i \notin PendingChunks(v)
            /\ v.lastAckAge = 0]_vars

ShareAdmitsOneJoiner ==
  [][/\ \A s \in ShareIds : Len(shareSessions'[s].clients) <= 2
     /\ \A k \in DOMAIN httpReqs' :
          (/\ httpReqs'[k].op = "join"
           /\ httpReqs'[k].result = "success"
           /\ (k \notin DOMAIN httpReqs \/ httpReqs[k].result # "success"))
            => Len(shareSessions[httpReqs'[k].shareId].clients) < 2]_vars

\* C13: each clientId occurs at most once over the clients lists of all
\* stored shares.
ClientInOneShare ==
  \A c \in Clients :
    Cardinality({<<s, x>> \in ShareIds \X (1..2) :
                   /\ x \in DOMAIN shareSessions[s].clients
                   /\ shareSessions[s].clients[x] = c}) <= 1

\* C14: joinShare on a share with two participants is rejected with
\* SHARE_SESSION_FULL (409), on an unknown share with NOT_FOUND (404), on
\* an inactive share with an error; a rejected join leaves the shares, the
\* client sessions and the emitted events as they are.
RejectedJoinChangesNothing ==
  [][\A k \in DOMAIN httpReqs' \ DOMAIN httpReqs :
       LET r == httpReqs'[k]
           sh == shareSessions[r.shareId]
       IN r.op = "join" =>
            /\ (sh.present /\ Len(sh.clients) >= 2 /\ sh.status = "active")
                 => (r.result = "SHARE_SESSION_FULL" /\ HttpStatus(r.result) = 409)
            /\ ~sh.present
                 => (r.result = "NOT_FOUND" /\ HttpStatus(r.result) = 404)
            /\ \A c2 \in SUBSET Clients :
                 JoinCheck([present |-> TRUE, clients |-> ArrayOfClients(c2),
                            status |-> "inactive", lastActivity |-> 0])
                   = "BAD_REQUEST"
            /\ r.result \notin {"success", "pending"}
                 => /\ shareSessions' = shareSessions
                    /\ clientSessions' = clientSessions
                    /\ shareEvents' = shareEvents]_vars

\* C14, its case: a share was created and joined, and a third client's join
\* was rejected on the full share.
JoinRejectedOnFullShare ==
  \E k \in DOMAIN httpReqs :
    /\ httpReqs[k].op = "join" /\ httpReqs[k].pc = "done"
    /\ httpReqs[k].result = "SHARE_SESSION_FULL"
    /\ Len(shareSessions[httpReqs[k].shareId].clients) = 2
    /\ httpReqs[k].clientId \notin Range(shareSessions[httpReqs[k].shareId].clients)

\* C15: createShare with a shareId that exists is rejected with 409 and
\* leaves the share unchanged, and a createShare returns success only when
\* no share is stored under the id at that moment: of two concurrent
\* creates with one custom shareId at most one returns success.
CreateRejectsDuplicate ==
  [][\A k \in DOMAIN httpReqs' :
       LET r == httpReqs'[k] IN
       r.op = "create" =>
         /\ (/\ k \notin DOMAIN httpReqs
             /\ shareSessions[r.shareId].present)
              => /\ r.result = "CONFLICT" /\ HttpStatus(r.result) = 409
                 /\ shareSessions' = shareSessions
         /\ (/\ r.result = "success"
             /\ (k \notin DOMAIN httpReqs \/ httpReqs[k].result # "success"))
              => ~shareSessions[r.shareId].present]_vars

\* C17, as stated: once the master has stopped running for the lock's
\* expiry L = 15 s, a surviving node that ticks every 5 s holds
\* cluster:master, has isMaster = true and has emitted cluster-role-change
\* with isMaster true.
FailoverWithinLease ==
  (/\ failAge >= MASTER_TTL * 1000
   /\ \A n \in Nodes : alive[n] => (timer[n] > 0 /\ epc[n] = "idle"))
    => \E n \in Nodes :
          alive[n] /\ lockHolder = n /\ isMaster[n] /\ roleEvent[n] = "master"

\* C17: once the master has stopped running for the lock's expiry plus one
\* election interval (15 s + 5 s), a surviving node that ticks every 5 s
\* holds cluster:master, has isMaster = true and has emitted
\* cluster-role-change with isMaster true.
FailoverWithinLeasePlusInterval ==
  (/\ failAge >= MASTER_TTL * 1000 + ELECTION_INTERVAL
   /\ \A n \in Nodes : alive[n] => (timer[n] > 0 /\ epc[n] = "idle"))
    => \E n \in Nodes :
          alive[n] /\ lockHolder = n /\ isMaster[n] /\ roleEvent[n] = "master"

\* C17, its case: the master stopped, the lock ran out after the survivor's
\* tick before the lease end, and the survivor took it at its next tick.
SurvivorTookOver ==
  /\ failAge > MASTER_TTL * 1000
  /\ \E n \in Nodes :
        /\ alive[n] /\ lockHolder = n /\ isMaster[n]
        /\ roleEvent[n] = "master"
        /\ lockTtl = MASTER_TTL * 1000
        /\ timer[n] = ELECTION_INTERVAL

\* C19: the node registry holds at most one record with role = master at
\* any time, also after the master stopped running and another node was
\* elected.
AtMostOneMasterRecord == Cardinality({n \in Nodes : role[n] = "master"}) <= 1

\* C16: while the target client is registered on one node with a live
\* socket and no reconnect is in flight (that socket is the last it opened
\* and its only live one), every message published on message:route for
\* it leads to exactly one emit, on that socket of that node, and to no
\* emit on any other node or socket.
RoutedMessageEmittedOnce ==
  \A k \in DOMAIN published :
    LET m == published[k]
        c == m.socketId.client
        n == m.targetNodeId
        via == {x \in DOMAIN emitLog : emitLog[x].via = m.mid}
        waiting == \E q \in Nodes : \E y \in DOMAIN routeInbox[q] :
                      routeInbox[q][y].mid = m.mid
        registered ==
          /\ m.socketId \in sockets[n]
          /\ sockGen[c] = m.socketId.gen
          /\ \A q \in Nodes : \A sd \in sockets[q] :
                sd.client = c => (q = n /\ sd = m.socketId)
    IN (m.channel = MESSAGE_ROUTE /\ registered) =>
         /\ \A x \in via : emitLog[x].node = n /\ emitLog[x].socketId = m.socketId
         /\ Cardinality(via) <= 1
         /\ ~waiting => Cardinality(via) = 1

\* C16, its case: a message for the receiver, registered on n2 next to
\* another client's socket, was published on message:route by the other
\* node, every node has handled it, and it was emitted once on n2.
RoutedAcrossNodes ==
  \E k \in DOMAIN published :
    LET m == published[k] IN
    /\ m.channel = MESSAGE_ROUTE /\ m.targetClientId = Receiver
    /\ m.targetNodeId = "n2"
    /\ sockets["n2"] = {m.socketId, SockId("C", 1)}
    /\ sockets["n1"] = {}
    /\ sockGen[Receiver] = m.socketId.gen
    /\ \A q \in Nodes : routeInbox[q] = <<>>
    /\ Cardinality({x \in DOMAIN emitLog : emitLog[x].via = m.mid}) = 1

\* C18: a routing:request published while no node has isMaster, for a client
\* that is registered with a live socket, is not lost: when a node has
\* handled it, it was dispatched (emitted or published on message:route)
\* or another node still holds it, so that it reaches the target once a
\* master is elected.
RoutingRequestSurvivesGap ==
  [][\A n \in Nodes :
       LET r == Head(routeInbox[n])
           c == r.targetClientId
           Mids(q) == {routeInbox'[q][y].mid : y \in DOMAIN routeInbox'[q]}
       IN (/\ routeInbox[n] # <<>>
           /\ r.channel = ROUTING_REQUEST /\ r.gap
           /\ r.mid \notin Mids(n)
           /\ \E sd \in UNION {sockets[q] : q \in Nodes} :
                 /\ sd.client = c
                 /\ \E row \in dbSessions[c] :
                       row.socketId = sd /\ sd \in sockets[row.nodeId])
          => \/ \E q \in Nodes : r.mid \in Mids(q)
             \/ Len(emitLog') > Len(emitLog)
             \/ Len(published') > Len(published)]_vars

\* C20: an upload state written with setUploadState through the distributed
\* backend and read back on a node without a copy, by getUploadState or by
\* getAllUploadStates, has the same uploadedChunks, the same pendingAcks
\* entries and the same chunkChecksums entries.
UploadStateRoundTrips ==
  \A f \in FileIds :
    LET u == fileUploads["n1"][f]
        Acks(x) == IF x.pendingKind = "map" THEN Range(x.pendingAcks) ELSE {}
        Sums(x) == IF x.checksKind = "map" THEN Range(x.chunkChecksums) ELSE {}
        Same(r) == /\ r.uploadedChunks = u.uploadedChunks
                   /\ Acks(r) = Acks(u)
                   /\ Sums(r) = Sums(u)
    IN redisUploads[f].status # "absent" =>
         /\ Same(getUploadState("n2", f))
         /\ Same(getAllUploadStates("n2")[f])

\* C21: when the server answers upload-chunk(fileId, i) with success, index i
\* is in the upload state that storage holds: a read of that state on any
\* node of the cluster, by getUploadState or by getAllUploadStates, sees i in
\* uploadedChunks.
AnsweredChunkIsStored ==
  [][\A k \in DOMAIN reqs :
       (reqs[k].pc \in {"relay", "finish"} /\ reqs'[k].pc = "done")
         => \A n \in (IF useRedis THEN Nodes ELSE {nodeOf[Sender]}) :
              /\ reqs[k].chunkIndex
                   \in (getUploadState(n, TheFile))'.uploadedChunks
              /\ reqs[k].chunkIndex
                   \in (getAllUploadStates(n))'[TheFile].uploadedChunks]_vars

\* C22: for every published payload that holds a binary buffer of any length,
\* length 0 included, the payload a subscriber gets from
\* deserialize(serialize(payload)) has a buffer of exactly the same bytes
\* and the other fields unchanged.
PayloadRoundTrips ==
  \A x \in DOMAIN emitLog : emitLog[x].payload = published[emitLog[x].via]

\* C23: through the distributed backend checkRateLimit(key, max) allows at
\* most max calls per window for a key, also when calls for the key run
\* concurrently: reading the counter and incrementing it act as one step.
RateLimitHolds ==
  useRedis => \A c \in Clients : rlWin[c].allowed <= RateMax

\* C24: a heartbeat that arrives when the limit of the current window is
\* used up is answered with rate-limited, resetAt being the end of the
\* current window, and not with heartbeat-ack - on the distributed and on
\* the embedded backend.
HeartbeatBeyondLimitRejected ==
  [][Len(hbCalls') > Len(hbCalls) =>
       LET h == hbCalls'[Len(hbCalls')]
           w == rlWin[h.clientId]
       IN (w.left > 0 /\ w.allowed >= RateMax)
            => /\ h.answer = "rate-limited"
               /\ h.resetIn = w.left]_vars

\* C25: for every client, at every instant, its uploads in status uploading
\* number at most maxConcurrentUploads, and its uploads in status uploading
\* plus its open downloads number at most maxConcurrentTransfers, also when
\* upload-init requests of one sender or of both participants of a share
\* are processed concurrently.
TransferBudgetKept ==
  \A c \in Clients :
    LET up == ActiveUploads(nodeOf[c], c)
        down == Cardinality(clientSessions[c].downloads)
    IN up <= maxConcurrentUploads /\ up + down <= maxConcurrentTransfers

\* C26: an upload-init that fails (file too large, budget used up, or all
\* receivers busy) leaves no UploadState under its fileId on any node and
\* no entry for it in any client's downloads.
FailedInitLeavesNothing ==
  [][\A k \in DOMAIN initCalls :
       LET call == initCalls'[k] IN
       (initCalls[k].pc # "done" /\ call.pc = "done" /\ call.result # "success")
         => /\ \A n \in Nodes :
                  (getUploadState(n, initCalls[k].fileId))'.status = "absent"
            /\ \A c \in Clients :
                  initCalls[k].fileId \notin clientSessions'[c].downloads]_vars

\* C27: once cancel-download{fileId, clientId} has been processed, no
\* upload-chunk of that file arriving later is relayed to that client as
\* chunk-received, whatever other handlers rewrite the client's
\* ClientSession in between (the marks of a file are cleared when its
\* upload completes).
CancelledClientGetsNoChunk ==
  [][\A k \in DOMAIN reqs, j \in DOMAIN cancelCalls :
       LET call == cancelCalls[j]
           c == call.clientId
       IN
       ( /\ call.pc = "done" /\ k > call.after
         /\ reqs[k].pc = "relay" /\ reqs'[k].pc # "relay"
         /\ getUploadState(nodeOf[Sender], call.fileId).status = "uploading" )
         => /\ recvLog'[c] = recvLog[c]
            /\ \A x \in DOMAIN msgRoute' :
                 x > Len(msgRoute) => msgRoute'[x].targetClientId # c]_vars

ShareIdNamesStoredShare ==
  \A c \in Clients :
    clientSessions[c].present
      => \/ clientSessions[c].shareId = None
         \/ shareSessions[clientSessions[c].shareId].present

\* C30: once the graceful shutdown of a node has run, every Session row of
\* that node is inactive and the node's status is inactive, in cluster
\* mode and in standalone mode alike.
ShutdownDeactivatesNode ==
  \A n \in Nodes :
    shutdownPc[n] = "down"
      => /\ nodeStatus[n] = "inactive"
         /\ RowsOf(n) \subseteq dbInactive

\* the standalone happy path: three chunks announced, chunks 0, 1, 2
\* ingested in that order
HappyPathIngested ==
  /\ ~useRedis
  /\ fileUploads[nodeOf[Sender]][TheFile].totalChunks = 3
  /\ Len(reqs) = 3
  /\ \A k \in 1..3 : reqs[k].chunkIndex = k - 1 /\ reqs[k].pc = "done"

\* C31 as stated: in the standalone happy path with totalChunks = 3 and
\* chunks 0, 1, 2 ingested in that order the sender observes chunk-uploaded
\* with the progress values 33, 66, 100.
ProgressThirds66 == HappyPathIngested => progressLog = <<33, 66, 100>>

\* C31 amended: the progress values are 33, 67, 100.
ProgressThirds67 == HappyPathIngested => progressLog = <<33, 67, 100>>

ProgressOfThreeChunksSeen == HappyPathIngested /\ Len(progressLog) = 3

\* C32: an upload whose every ingested chunk was relayed to a connected
\* receiver, with chunk-acknowledged routed back to the sender for it, is
\* never marked failed and draws no chunk-retry, however long it stays in
\* status uploading.
AcknowledgedUploadNeverFails ==
  [][LET u == fileUploads[nodeOf[Sender]][TheFile] IN
     ( /\ u.status = "uploading"
       /\ clientSessions[Receiver].present /\ clientSessions[Receiver].connected
       /\ u.uploadedChunks # {}
       /\ u.uploadedChunks \subseteq ackLog
       /\ u.uploadedChunks \subseteq Range(recvLog[Receiver])
       /\ \A k \in DOMAIN reqs : reqs[k].pc = "done" )
       => /\ retryLog' = retryLog
          /\ failLog' = failLog
          /\ \A n \in Nodes :
               (getUploadState(n, TheFile))'.status # "failed"]_vars

\* C33: once upload-init has accepted receiver R for fileId, fileId stays
\* in R's downloads while R stays registered and sends neither
\* download-confirmed nor cancel-download: no heartbeat of R or other
\* handler rewriting R's ClientSession concurrently removes it.
AcceptedDownloadStays ==
  [][\A c \in Clients, f \in FileIds :
       (clientSessions[c].present /\ f \in clientSessions[c].downloads
          /\ clientSessions'[c].present)
         => f \in clientSessions'[c].downloads]_vars

\* C34: for every stored share S and every client c in S.clients that has
\* a stored ClientSession, the session's shareId is S, also after c
\* registers again with the same clientId and when c created or joined the
\* share before registering.
ShareMembersNameShare ==
  \A s \in ShareIds :
    shareSessions[s].present
      => \A c \in Range(shareSessions[s].clients) :
           clientSessions[c].present => clientSessions[c].shareId = s

\* the receivers upload-init call k has accepted so far
AcceptedAtInit(f) ==
  UNION {initCalls[k].accepted : k \in {j \in DOMAIN initCalls :
                                          initCalls[j].fileId = f}}

\* a file is in the downloads of a client only if an upload-init for that
\* file accepted the client: the chunk relay, which sends chunk-received
\* to the participants whose downloads contain the file, reaches nobody
\* that upload-init skipped
DownloadersWereAccepted ==
  \A o \in Clients, f \in FileIds :
    (clientSessions[o].present /\ f \in clientSessions[o].downloads)
      => o \in AcceptedAtInit(f)

\* upload-init call k routes file-transfer-started to its accepted
\* receivers in this step
StartsTransfer(k) ==
  /\ initCalls[k].pc = "receivers"
  /\ initCalls'[k].pc = "done"
  /\ initCalls'[k].result = "success"

\* C35: chunk-received and file-transfer-started for a fileId go to client
\* R only if R is another participant of the sender's share that upload-init
\* accepted and the fileId is in R's downloads at that moment; a participant
\* upload-init skipped for being over budget receives neither.
TransferEventsOnlyToDownloaders ==
  /\ []DownloadersWereAccepted
  /\ [][\A k \in DOMAIN initCalls :
          StartsTransfer(k)
            => \A o \in initCalls[k].accepted :
                 /\ o \in Range(OtherClients(initCalls[k].clientId))
                 /\ clientSessions[o].present
                 /\ initCalls[k].fileId \in clientSessions[o].downloads]_vars

\* C36: after the disconnect of client c has been processed, c is in no
\* stored share's clients list and no stored ShareSession has an empty
\* clients list, for any interleaving with a concurrent joinShare or
\* disconnect on the same share; the handler sends
\* client-disconnected-from-share once to each participant it found.
DisconnectedClientLeftShares ==
  \A s \in ShareIds :
    shareSessions[s].present
      => /\ shareSessions[s].clients # <<>>
         /\ \A c \in Range(shareSessions[s].clients) :
              clientSessions[c].present => clientSessions[c].connected

\* node n finishes a cleanup cycle in this step
CycleEnds(n) == cleanup[n].pc = "prisma" /\ cleanup'[n].pc = "idle"

\* C37: after any cleanup cycle (cleanupDeadNodes followed by
\* PrismaService.cleanup) has finished on some node, every session whose
\* node has status dead is marked inactive, whichever of the two routines
\* flipped that node from active to dead.
CleanupCycleDeactivatesDeadNodes ==
  [][\A n \in Nodes :
       CycleEnds(n)
         => \A m \in Nodes :
              nodeStatus'[m] = "dead" => (RowsOf(m))' \subseteq dbInactive']_vars

\* the key ratelimit:heartbeat:<c> exists and has an expiry
KeyExpires(c) == rlCount[c] > 0 => rlTtl[c] \in 1..WindowTicks

\* C38: every rate-limit counter key that exists carries an expiry of at
\* most one window from its first increment, so that a limited client is
\* allowed again once the window has passed; also when the key expires
\* between the read and the increment of a call.
RateLimitKeyExpires ==
  \A c \in Clients :
    /\ KeyExpires(c)
    /\ rlCount[c] > 0 => rlTtl[c] <= rlWin[c].left

\* node n emits a cluster-role-change event in this step
EmitsRoleChange(n) == roleCount'[n] # roleCount[n]

RoleOfFlag(b) == IF b THEN "master" ELSE "worker"

\* C39: for each node, the cluster-role-change events it emits alternate
\* between role=master and role=worker, starting with master: an election
\* tick that leaves the node's isMaster flag unchanged emits nothing, and
\* every change of the flag emits exactly one event.
RoleEventsAlternate ==
  [][\A n \in Nodes :
       /\ isMaster'[n] = isMaster[n] => ~EmitsRoleChange(n)
       /\ isMaster'[n] # isMaster[n]
            => EmitsRoleChange(n) /\ roleEvent'[n] = RoleOfFlag(isMaster'[n])
       /\ EmitsRoleChange(n)
            => /\ roleEvent'[n] # roleEvent[n]
               /\ roleEvent[n] = None => roleEvent'[n] = "master"]_vars

\* a node has been master, lost the key to the other node and found out
MasterBecameWorker ==
  \E n \in Nodes : roleEvent[n] = "worker" /\ ~isMaster[n] /\ epc[n] = "idle"

\* request k is answered with {error} in this step
AnswersError(k) == cbLog'[k] # cbLog[k] /\ cbLog'[k][Len(cbLog'[k])] = "error"

\* C40: every upload-chunk request that carries an acknowledgment callback
\* gets exactly one response - {success: true} after the relay step, or one
\* {error} when the upload is missing, cancelled or paused - and a request
\* answered with {error} leaves the UploadState unchanged and relays
\* nothing.
EveryChunkAnsweredOnce ==
  /\ [](\A k \in DOMAIN reqs :
          /\ Len(cbLog[k]) <= 1
          /\ reqs[k].pc = "done" => Len(cbLog[k]) = 1)
  /\ [][\A k \in DOMAIN reqs :
          AnswersError(k)
            => /\ (getUploadState(nodeOf[Sender], TheFile))'
                    = getUploadState(nodeOf[Sender], TheFile)
               /\ recvLog' = recvLog
               /\ msgRoute' = msgRoute]_vars

====
